---- MODULE Spec2Model ----
(***************************************************************************)
(* Waymark (Chapter Marker Buddy) persistence layer:                       *)
(*   src/src/content/storage.js        CMBStorage (chrome.storage.local)   *)
(*   src/src/content/screenshot-db.js  CMBScreenshotDB (IndexedDB)         *)
(*   src/unnamed/part_002              content script (callers)            *)
(*                                                                         *)
(* Every async function is cut at its awaits: one action per segment that  *)
(* runs without suspending.  A backend call takes effect when it is issued *)
(* (the backends serve requests in order); the caller stays suspended      *)
(* until the action that resumes it.  Time is counted in days.             *)
(***************************************************************************)
EXTENDS Integers, Sequences, FiniteSets, TLC

VARIABLES
  now,             \* Date.now()
  store,           \* chrome.storage.local["cmb.sessions"], in Object.keys order
  lastActiveKey,   \* chrome.storage.local["cmb.lastActiveKey"] (0 = unset)
  lastCleanup,     \* chrome.storage.local["cmb.settings"].lastCleanup (0 = unset)
  blobs,           \* the IndexedDB object store "screenshots"
  heap,            \* session objects held by callers (passed by reference)
  saveQueue,       \* storage.js:131, the Map in insertion order
  saveInProgress,  \* storage.js:132
  task,            \* the async calls in progress, one slot per caller
  faultsLeft,      \* how many backend calls may still fail in this run
  opsLeft,         \* how many more top-level calls the environment makes
  enq,             \* history: the values handed to queuedSave, in call order
  qwrites,         \* history: the physical writes the drain loop has issued
  finDone,         \* history: keys finalized since the last top-level call began
  overlap,         \* history: some call began while another was in progress
  events,          \* history: what the drain loop measured, wrote and toasted
  db,              \* screenshot-db.js: the cached connection (FALSE = null)
  currentSession   \* part_002:369: the session the page works on

vars == <<now, store, lastActiveKey, lastCleanup, blobs, heap, saveQueue,
          saveInProgress, task, faultsLeft, opsLeft, enq, qwrites, finDone, overlap,
          events, db, currentSession>>

----------------------------------------------------------------------------
(* Bounds of the model *)

MaxOps == 2        \* top-level calls per run
MaxFaults == 1     \* failing backend calls per run
MaxTick == 1       \* days the clock may advance during a run
T0 == 100          \* the day a run starts on
MaxSessions == 7   \* stored sessions when capacity eviction is studied
MaxAged == 2       \* stored sessions when age eviction is studied

Procs == {1, 2}    \* concurrent callers (event handlers in flight)
ObjIds == {1, 2}   \* session objects the callers hold

\* getSessionKey(location.href): the key of the page the script runs on
PageKey == 1

\* part_002:753: the session begun on this page, an object of its own, and
\* the key getSessionKey gives for its url
PageSession == [obj |-> 1, key |-> PageKey]
QKeys == {1, 2}    \* session keys the callers use

----------------------------------------------------------------------------
(* Program constants *)

SESSIONS_KEY == "cmb.sessions"
QuotaLimit == 5242880          \* 5 * 1024 * 1024
WarnLimit == 4194304           \* quotaLimit * 0.8
KeepSessions == 5
Retries == 3
OneDay == 1                    \* 24 * 60 * 60 * 1000 ms
ScreenshotMaxAge == 30         \* 30 * 24 * 60 * 60 * 1000 ms
SessionMaxAge == 90            \* 90 * 24 * 60 * 60 * 1000 ms

\* sizes JSON.stringify(storage) may have: each side of both thresholds
DataSizes == {WarnLimit - 1, WarnLimit, QuotaLimit - 1, QuotaLimit}

----------------------------------------------------------------------------
(* The sessions collection: a JS object, i.e. key/value pairs kept in      *)
(* insertion order.                                                        *)

KeysOf(c) == {c[i].key : i \in DOMAIN c}

Has(c, k) == k \in KeysOf(c)

Idx(c, k) == CHOOSE i \in DOMAIN c : c[i].key = k

Get(c, k) == c[Idx(c, k)].rec

\* sessions[k] = r
Put(c, k, r) ==
  IF Has(c, k) THEN [c EXCEPT ![Idx(c, k)].rec = r]
  ELSE Append(c, [key |-> k, rec |-> r])

\* mutant: the key is looked up by position and a missing key (-1) takes
\* the last entry with it
Del_Splice(c, k) ==
  IF Has(c, k) THEN SelectSeq(c, LAMBDA e : e.key # k)
  ELSE SubSeq(c, 1, Len(c) - 1)

\* delete sessions[k]
Del(c, k) == SelectSeq(c, LAMBDA e : e.key # k)

\* the session literal of beginSession
NewSession(t) ==
  [updatedAt |-> t, createdAt |-> t, markers |-> <<>>, finalized |-> FALSE]

----------------------------------------------------------------------------
(* Async call frames *)

NoData == [snap |-> <<>>, key |-> 0, obj |-> 0, eid |-> 0]

\* what a read of the session store returns: the entries found (none for
\* null and for the empty list) and the two counts of the statistics
NoOut == [list |-> <<>>, sessionCount |-> 0, markerCount |-> 0]

Idle ==
  [pc |-> "idle", op |-> "none", key |-> 0, obj |-> 0, snap |-> <<>>,
   rec |-> NewSession(0), qd |-> NoData, attempt |-> 0,
   victims |-> <<>>, ret |-> "none", res |-> "ok", n |-> 0, pre |-> <<>>,
   preBlobs |-> {}, blobErr |-> FALSE, mid |-> 0, at |-> 0, second |-> FALSE,
   recent |-> FALSE, val |-> "none", out |-> NoOut]

\* where a call is while it runs cleanupOldSessions, and progressiveCleanup
CapacityPcs == {"cl_get", "cl_blob", "cl_set"}

AgePcs == {"pc_blob", "pc_get", "pc_set", "pc_sget", "pc_sset"}

\* history: some caller is inside a sweep of this kind
SweepRunning(pcs) == \E q \in Procs : task[q].pc \in pcs

\* mutant: only the saved session is written, the rest of the snapshot is lost
Serialize_Alone(d) == <<[key |-> d.key, rec |-> heap[d.obj]]>>

\* what chrome.storage.local.set receives for a queued collection: the
\* snapshot with sessions[sessionKey] = session, the session object being
\* serialized as it is when set is called
Serialize(d) == Put(d.snap, d.key, heap[d.obj])

\* a backend call may fail only while the run's fault budget lasts
Allowed(r) == r = "ok" \/ faultsLeft > 0

Charge(r) == IF r = "ok" THEN faultsLeft ELSE faultsLeft - 1

\* Map.prototype.set
MapSet(q, k, d) ==
  IF \E i \in DOMAIN q : q[i].key = k
  THEN [i \in DOMAIN q |-> IF q[i].key = k THEN [key |-> k, data |-> d] ELSE q[i]]
  ELSE Append(q, [key |-> k, data |-> d])

Resting(p) == task[p].pc \in {"idle", "done"}

\* a new call takes the lowest free slot (the slots are interchangeable)
Free(p) == Resting(p) /\ \A q \in Procs : q < p => ~Resting(q)

Quiescent == (\A p \in Procs : Resting(p)) /\ ~saveInProgress

\* a top-level call begins in slot p
Call(p) ==
  /\ Free(p)
  /\ opsLeft > 0
  /\ opsLeft' = opsLeft - 1
  /\ finDone' = {}
  /\ overlap' = (overlap \/ ~Quiescent)

\* history: a toast that reports a failed or skipped write reaches every
\* queued value that has not been written
Signal(e) ==
  [i \in DOMAIN e |->
     IF e[i].st = "queued" THEN [e[i] EXCEPT !.st = "signalled"] ELSE e[i]]

\* history of the drain loop, kept in the runs that study it: what
\* checkStorageQuota measured and returned, the writes issued and how they
\* answered, the timers set and the toasts shown
NoEvents == [on |-> FALSE, log |-> <<>>]

Ev(e, eid, v) == [e |-> e, eid |-> eid, v |-> v]

Log(es) == IF events.on THEN [events EXCEPT !.log = @ \o es] ELSE events

\* cleanupOldSessions was called by the drain loop (from checkStorageQuota
\* or from the catch of a quota error), not by a caller of its own
FromDrain(fr) == fr.ret \in {"check", "catch"}

\* the frame of a call that has returned
Done(fr, ok) ==
  [Idle EXCEPT !.pc = "done", !.op = fr.op, !.key = fr.key, !.obj = fr.obj,
               !.res = ok, !.n = fr.n, !.pre = fr.pre, !.preBlobs = fr.preBlobs,
               !.blobErr = fr.blobErr, !.at = fr.at]

----------------------------------------------------------------------------
(* BlobStore: screenshot-db.js *)

OwnedBy(k) == {b \in blobs : b.sessionKey = k}

\* mutant: the cursor is opened without the key, over the whole index
deleteSessionScreenshots_All(k, r) == IF r = "ok" THEN {} ELSE blobs

\* mutant: the cursor deletes nothing
deleteSessionScreenshots_None(k, r) == blobs

\* deleteSessionScreenshots(sessionKey): cursor over the sessionKey index
deleteSessionScreenshots(k, r) ==
  IF r = "ok" THEN blobs \ OwnedBy(k) ELSE blobs

\* mutant: the cursor is opened and nothing is deleted through it
cleanupOldScreenshots_None(maxAge, r) == blobs

\* cleanupOldScreenshots(maxAgeMs): IDBKeyRange.upperBound(cutoffTime)
cleanupOldScreenshots(maxAge, r) ==
  IF r = "ok" THEN {b \in blobs : ~(b.createdAt <= now - maxAge)} ELSE blobs

----------------------------------------------------------------------------
(* cleanupOldSessions: storage.js:94-128 *)

\* mutant: the comparator is a - b, oldest first
Rank_OldestFirst(c, i) ==
  1 + Cardinality({j \in DOMAIN c : c[j].rec.updatedAt < c[i].rec.updatedAt})
    + Cardinality({j \in DOMAIN c : j < i /\ c[j].rec.updatedAt = c[i].rec.updatedAt})

\* position of entry i after Array.prototype.sort (stable) by updatedAt,
\* most recent first
Rank(c, i) ==
  1 + Cardinality({j \in DOMAIN c : c[j].rec.updatedAt > c[i].rec.updatedAt})
    + Cardinality({j \in DOMAIN c : j < i /\ c[j].rec.updatedAt = c[i].rec.updatedAt})

SortedKeys(c) ==
  [n \in 1..Len(c) |-> c[CHOOSE i \in DOMAIN c : Rank(c, i) = n].key]

\* .slice(5): the keys beyond the five most recently updated
VictimKeys(c) == SubSeq(SortedKeys(c), KeepSessions + 1, Len(c))

\* cleanupOldSessions(): issues get(SESSIONS_KEY) and suspends
EnterCleanup(fr, r) ==
  [fr EXCEPT !.pc = "cl_get", !.res = r, !.second = SweepRunning(CapacityPcs),
             !.snap = IF r = "ok" THEN store ELSE <<>>]

\* mutant: the round goes straight to the write
StartAttempt_NoCheck(fr, r) == [fr EXCEPT !.pc = "drain_set", !.res = r]

\* checkStorageQuota(): issues get(null) and suspends (top of the while loop)
StartAttempt(fr, r) == [fr EXCEPT !.pc = "quota_get", !.res = r]

\* mutant: the flag is not dropped when the loop is left (no finally)
LeaveDrain_KeepFlag(p, fr) ==
  /\ saveQueue' = <<>>
  /\ saveInProgress' = TRUE
  /\ task' = [task EXCEPT ![p] = Idle]

\* storage.js:178-184: the while loop is left; the Map holds the single key
\* SESSIONS_KEY (saveSession, line 308, is the only caller of queuedSave), so
\* the entries() iterator is exhausted: clear the queue, drop the flag, return
LeaveDrain(p, fr) ==
  /\ saveQueue' = <<>>
  /\ saveInProgress' = FALSE
  /\ task' = [task EXCEPT ![p] = Idle]

\* cleanupOldSessions returns: to checkStorageQuota (which returns false and
\* the drain loop breaks), to the catch of the drain loop (break), or to
\* its caller.  It has no return value (storage.js:100 is a bare return):
\* the caller's frame gets -1 for undefined.
LeaveCleanup(p, fr) ==
  IF FromDrain(fr)
  THEN /\ LeaveDrain(p, fr)
       /\ events' = Log(<<Ev("evicted", fr.qd.eid, 0)>>
                        \o IF fr.ret = "check" THEN <<Ev("check", fr.qd.eid, 0)>>
                           ELSE <<>>)
  ELSE /\ task' = [task EXCEPT ![p] = Done([fr EXCEPT !.n = -1], fr.res)]
       /\ UNCHANGED <<currentSession, db, saveQueue, saveInProgress, events>>

\* storage.js:94-100: the collection has been read
cleanupOldSessions_afterGet(p) ==
  LET fr == task[p] IN
  /\ fr.pc = "cl_get"
  /\ IF fr.res = "ok" /\ Len(fr.snap) > KeepSessions
     THEN \E b \in {"ok", "err"} :
            /\ Allowed(b)
            /\ faultsLeft' = Charge(b)
            /\ blobs' = deleteSessionScreenshots(Head(VictimKeys(fr.snap)), b)
            /\ task' = [task EXCEPT ![p] =
                 [fr EXCEPT !.pc = "cl_blob", !.victims = VictimKeys(fr.snap),
                            !.blobErr = (b = "err")]]
            /\ UNCHANGED <<currentSession, db, saveQueue, saveInProgress, events>>
     ELSE /\ LeaveCleanup(p, fr)
          /\ UNCHANGED <<currentSession, db, blobs, faultsLeft>>
  /\ UNCHANGED <<currentSession, db, now, store, lastActiveKey, lastCleanup, heap, opsLeft, enq, qwrites, finDone, overlap>>

\* storage.js:109-121: one victim's screenshots are done with; delete the
\* session from the local collection, go on to the next victim or write
cleanupOldSessions_afterBlob(p) ==
  LET fr == task[p]
      left == Tail(fr.victims)
      sessions == Del(fr.snap, Head(fr.victims))
  IN
  /\ fr.pc = "cl_blob"
  /\ \E r \in {"ok", "err"} :
       /\ Allowed(r)
       /\ faultsLeft' = Charge(r)
       /\ IF left # <<>>
          THEN /\ blobs' = deleteSessionScreenshots(Head(left), r)
               /\ store' = store
               /\ task' = [task EXCEPT ![p] =
                    [fr EXCEPT !.snap = sessions, !.victims = left,
                               !.blobErr = fr.blobErr \/ r = "err"]]
          ELSE /\ blobs' = blobs
               /\ store' = IF r = "ok" THEN sessions ELSE store
               /\ task' = [task EXCEPT ![p] =
                    [fr EXCEPT !.pc = "cl_set", !.snap = sessions,
                               !.victims = left, !.res = r]]
  /\ UNCHANGED <<currentSession, db, events, now, lastActiveKey, lastCleanup, heap, saveQueue,
                 saveInProgress, opsLeft, enq, qwrites, finDone, overlap>>

\* storage.js:122-127: the write has answered (toast, or the catch)
cleanupOldSessions_afterSet(p) ==
  LET fr == task[p] IN
  /\ fr.pc = "cl_set"
  /\ LeaveCleanup(p, fr)
  /\ UNCHANGED <<currentSession, db, now, store, lastActiveKey, lastCleanup, blobs, heap,
                 faultsLeft, opsLeft, enq, qwrites, finDone, overlap>>

\* cleanupOldSessions() called on its own (it is exported)
cleanupOldSessions(p) ==
  /\ Call(p)
  /\ \E r \in {"ok", "err"} :
       /\ Allowed(r)
       /\ faultsLeft' = Charge(r)
       /\ task' = [task EXCEPT ![p] =
            EnterCleanup([Idle EXCEPT !.op = "cleanup", !.ret = "top",
                                      !.pre = store, !.preBlobs = blobs], r)]
  /\ UNCHANGED <<currentSession, db, events, now, store, lastActiveKey, lastCleanup, blobs, heap,
                 saveQueue, saveInProgress, enq, qwrites>>

----------------------------------------------------------------------------
(* saveSession and the write queue: storage.js:131-186, 299-313 *)

\* mutant: the in-progress flag is not consulted
DrainIdle_Always == TRUE

\* storage.js:140: if (!saveInProgress)
DrainIdle == ~saveInProgress

\* storage.js:299-304: bump updatedAt on the caller's object, read the
\* collection
saveSession(p, o, k) ==
  /\ Call(p)
  /\ heap' = [heap EXCEPT ![o].updatedAt = now]
  /\ \E r \in {"ok", "err"} :
       /\ Allowed(r)
       /\ faultsLeft' = Charge(r)
       /\ task' = [task EXCEPT ![p] =
            [Idle EXCEPT !.pc = "save_get", !.op = "save", !.key = k, !.obj = o,
                         !.res = r, !.n = Len(qwrites), !.at = heap[o].updatedAt,
                         !.snap = IF r = "ok" THEN store ELSE <<>>]]
  /\ UNCHANGED <<currentSession, db, events, now, store, lastActiveKey, lastCleanup, blobs, saveQueue,
                 saveInProgress, enq, qwrites>>

\* storage.js:305-308 and 135-152: sessions[sessionKey] = session, then
\* queuedSave: put the collection in the Map and, unless a drain is running,
\* start one (the for loop takes the Map's entry, the while loop asks for the
\* quota check).  A failed read is rethrown to the caller (309-312).
saveSession_afterGet(p) ==
  LET fr == task[p]
      d == [snap |-> fr.snap, key |-> fr.key, obj |-> fr.obj, eid |-> Len(enq) + 1]
      q == MapSet(saveQueue, SESSIONS_KEY, d)
  IN
  /\ fr.pc = "save_get"
  /\ IF fr.res # "ok"
     THEN /\ task' = [task EXCEPT ![p] = Idle]
          /\ UNCHANGED <<currentSession, db, saveQueue, saveInProgress, enq, faultsLeft>>
     ELSE /\ saveQueue' = q
          /\ enq' = Append(enq, [key |-> fr.key, obj |-> fr.obj, arg |-> heap[fr.obj],
                                 val |-> Serialize(d), early |-> (fr.n = 0),
                                 before |-> fr.at, st |-> "queued"])
          /\ IF ~DrainIdle
             THEN /\ task' = [task EXCEPT ![p] = Idle]
                  /\ UNCHANGED <<currentSession, db, saveInProgress, faultsLeft>>
             ELSE /\ saveInProgress' = TRUE
                  /\ \E r \in {"ok", "err"} :
                       /\ Allowed(r)
                       /\ faultsLeft' = Charge(r)
                       /\ task' = [task EXCEPT ![p] =
                            StartAttempt([fr EXCEPT !.qd = q[1].data, !.attempt = 0,
                                                    !.snap = <<>>], r)]
  /\ UNCHANGED <<currentSession, db, events, now, store, lastActiveKey, lastCleanup, blobs, heap, opsLeft,
                 qwrites, finDone, overlap>>

\* mutant: a storage exactly at the limit still passes
OverQuota_Strict(size) == size > QuotaLimit

\* storage.js:23: dataSize >= quotaLimit
OverQuota(size) == size >= QuotaLimit

\* storage.js:27: dataSize >= quotaLimit * warningThreshold
NearQuota(size) == size >= WarnLimit

\* mutant: a failed measurement counts as a storage over the limit
Blocked_FailClosed(res, size) == res # "ok" \/ OverQuota(size)

\* storage.js:18-35: the check answers false only for a measured size at or
\* over the limit; the catch of a failed measurement answers true
Blocked(res, size) == res = "ok" /\ OverQuota(size)

\* storage.js:16-36 and 152-158: checkStorageQuota resumes with the size of
\* the storage.  Over the limit: toast, cleanupOldSessions, return false (the
\* drain skips the entry).  Otherwise, and when the read failed, return true:
\* the drain issues chrome.storage.local.set for the entry it holds.
checkStorageQuota_afterGet(p) ==
  LET fr == task[p] IN
  /\ fr.pc = "quota_get"
  /\ \E size \in DataSizes :
       IF Blocked(fr.res, size)
       THEN /\ \E r \in {"ok", "err"} :
                 /\ Allowed(r)
                 /\ faultsLeft' = Charge(r)
                 /\ task' = [task EXCEPT ![p] = EnterCleanup([fr EXCEPT !.ret = "check"], r)]
            /\ enq' = Signal(enq)
            /\ events' = Log(<<Ev("measure", fr.qd.eid, size),
                               Ev("toast_cleanup", fr.qd.eid, 0)>>)
            /\ UNCHANGED <<currentSession, db, store, qwrites>>
       ELSE \E w \in {"ok", "err", "quota"} :
              /\ Allowed(w)
              /\ faultsLeft' = Charge(w)
              /\ store' = IF w = "ok" THEN Serialize(fr.qd) ELSE store
              /\ qwrites' = Append(qwrites, [eid |-> fr.qd.eid, key |-> fr.qd.key,
                                             rec |-> heap[fr.qd.obj],
                                             coll |-> Serialize(fr.qd), res |-> w])
              /\ enq' = IF w = "ok" THEN [enq EXCEPT ![fr.qd.eid].st = "written"] ELSE enq
              /\ task' = [task EXCEPT ![p] = [fr EXCEPT !.pc = "drain_set", !.res = w]]
              /\ events' = Log((IF fr.res # "ok" THEN <<Ev("nomeasure", fr.qd.eid, 0)>>
                                 ELSE IF NearQuota(size)
                                 THEN <<Ev("measure", fr.qd.eid, size),
                                        Ev("toast_warn", fr.qd.eid, 0)>>
                                 ELSE <<Ev("measure", fr.qd.eid, size)>>)
                                \o <<Ev("check", fr.qd.eid, 1),
                                     Ev("set", fr.qd.eid, 0)>>)
  /\ UNCHANGED <<currentSession, db, now, lastActiveKey, lastCleanup, blobs, heap, saveQueue,
                 saveInProgress, opsLeft, finDone, overlap>>

\* mutant: no error is recognised as a quota error
IsQuotaError_Never(res) == FALSE

\* storage.js:166: the message of the error names the quota
IsQuotaError(res) == res = "quota"

\* mutant: one attempt more than the budget
Exhausted_Late(att) == att > Retries

\* storage.js:169: attempt >= retries
Exhausted(att) == att >= Retries

\* storage.js:159-176: the write has answered.  Success ends the while loop;
\* a quota error toasts, runs cleanupOldSessions and breaks; any other error
\* counts the attempt and either toasts (attempts used up) or sleeps.
queuedSave_afterSet(p) ==
  LET fr == task[p]
      att == fr.attempt + 1
      answer == Ev(fr.res, fr.qd.eid, 0)
  IN
  /\ fr.pc = "drain_set"
  /\ CASE fr.res = "ok" ->
            /\ LeaveDrain(p, fr)
            /\ events' = Log(<<answer>>)
            /\ UNCHANGED <<currentSession, db, enq, faultsLeft>>
       [] IsQuotaError(fr.res) ->
            /\ \E r \in {"ok", "err"} :
                 /\ Allowed(r)
                 /\ faultsLeft' = Charge(r)
                 /\ task' = [task EXCEPT ![p] =
                      EnterCleanup([fr EXCEPT !.attempt = att, !.ret = "catch"], r)]
            /\ enq' = Signal(enq)
            /\ events' = Log(<<answer, Ev("toast_export", fr.qd.eid, 0)>>)
            /\ UNCHANGED <<currentSession, db, saveQueue, saveInProgress>>
       [] OTHER ->
            IF Exhausted(att)
            THEN /\ LeaveDrain(p, [fr EXCEPT !.attempt = att])
                 /\ enq' = Signal(enq)
                 /\ events' = Log(<<answer, Ev("toast_failed", fr.qd.eid, 0)>>)
                 /\ UNCHANGED faultsLeft
            ELSE /\ task' = [task EXCEPT ![p] = [fr EXCEPT !.attempt = att, !.pc = "backoff"]]
                 /\ events' = Log(<<answer, Ev("wait", fr.qd.eid, 1000 * att)>>)
                 /\ UNCHANGED <<currentSession, db, saveQueue, saveInProgress, enq, faultsLeft>>
  /\ UNCHANGED <<currentSession, db, now, store, lastActiveKey, lastCleanup, blobs, heap, opsLeft, qwrites, finDone, overlap>>

\* storage.js:173 and 149-152: the timer fired, next round of the while loop
queuedSave_afterBackoff(p) ==
  LET fr == task[p] IN
  /\ fr.pc = "backoff"
  /\ \E r \in {"ok", "err"} :
       /\ Allowed(r)
       /\ faultsLeft' = Charge(r)
       /\ task' = [task EXCEPT ![p] = StartAttempt(fr, r)]
  /\ UNCHANGED <<currentSession, db, events, now, store, lastActiveKey, lastCleanup, blobs, heap, saveQueue,
                 saveInProgress, opsLeft, enq, qwrites, finDone, overlap>>

\* storage.js:255-264: the record stored under k, or nothing (null)
getSession(k) == IF Has(store, k) THEN <<Get(store, k)>> ELSE <<>>

----------------------------------------------------------------------------
(* finalizeSession: storage.js:321-338 *)

\* lines 325-329: mark the caller's object, read the collection
finalizeSession(p, o, k) ==
  /\ Call(p)
  /\ heap' = [heap EXCEPT ![o].updatedAt = now, ![o].finalized = TRUE]
  /\ \E r \in {"ok", "err"} :
       /\ Allowed(r)
       /\ faultsLeft' = Charge(r)
       /\ task' = [task EXCEPT ![p] =
            [Idle EXCEPT !.pc = "fin_get", !.op = "finalize", !.key = k, !.obj = o,
                         !.res = r, !.snap = IF r = "ok" THEN store ELSE <<>>]]
  /\ UNCHANGED <<currentSession, db, events, now, store, lastActiveKey, lastCleanup, blobs, saveQueue,
                 saveInProgress, enq, qwrites>>

\* lines 330-334: sessions[sessionKey] = session, written at once
finalizeSession_afterGet(p) ==
  LET fr == task[p] IN
  /\ fr.pc = "fin_get"
  /\ IF fr.res # "ok"
     THEN /\ task' = [task EXCEPT ![p] = Idle]
          /\ UNCHANGED <<currentSession, db, store, faultsLeft>>
     ELSE \E w \in {"ok", "err"} :
            /\ Allowed(w)
            /\ faultsLeft' = Charge(w)
            /\ store' = IF w = "ok" THEN Put(fr.snap, fr.key, heap[fr.obj]) ELSE store
            /\ task' = [task EXCEPT ![p] = [fr EXCEPT !.pc = "fin_set", !.res = w]]
  /\ UNCHANGED <<currentSession, db, events, now, lastActiveKey, lastCleanup, blobs, heap, saveQueue,
                 saveInProgress, opsLeft, enq, qwrites, finDone, overlap>>

\* lines 334-337: the write has answered
finalizeSession_afterSet(p) ==
  LET fr == task[p] IN
  /\ fr.pc = "fin_set"
  /\ task' = [task EXCEPT ![p] = Idle]
  /\ finDone' = IF fr.res = "ok" THEN finDone \cup {fr.key} ELSE finDone
  /\ overlap' = overlap
  /\ UNCHANGED <<currentSession, db, events, now, store, lastActiveKey, lastCleanup, blobs, heap, saveQueue,
                 saveInProgress, faultsLeft, opsLeft, enq, qwrites>>

----------------------------------------------------------------------------
(* deleteSession: storage.js:363-388 *)

\* line 365: read the collection
deleteSession(p, k) ==
  /\ Call(p)
  /\ \E r \in {"ok", "err"} :
       /\ Allowed(r)
       /\ faultsLeft' = Charge(r)
       /\ task' = [task EXCEPT ![p] =
            [Idle EXCEPT !.pc = "del_get", !.op = "delete", !.key = k, !.res = r,
                         !.pre = store, !.preBlobs = blobs,
                         !.snap = IF r = "ok" THEN store ELSE <<>>]]
  /\ UNCHANGED <<currentSession, db, events, now, store, lastActiveKey, lastCleanup, blobs, heap, saveQueue,
                 saveInProgress, enq, qwrites>>

\* lines 366-371: the session's screenshots go first
deleteSession_afterGet(p) ==
  LET fr == task[p] IN
  /\ fr.pc = "del_get"
  /\ IF fr.res # "ok"
     THEN /\ task' = [task EXCEPT ![p] = Done(fr, "err")]
          /\ UNCHANGED <<currentSession, db, blobs, faultsLeft>>
     ELSE \E b \in {"ok", "err"} :
            /\ Allowed(b)
            /\ faultsLeft' = Charge(b)
            /\ blobs' = deleteSessionScreenshots(fr.key, b)
            /\ task' = [task EXCEPT ![p] =
                 [fr EXCEPT !.pc = "del_blob", !.blobErr = (b = "err"),
                            !.n = IF b = "ok" THEN Cardinality(OwnedBy(fr.key)) ELSE 0]]
  /\ UNCHANGED <<currentSession, db, events, now, store, lastActiveKey, lastCleanup, heap, saveQueue,
                 saveInProgress, opsLeft, enq, qwrites, finDone, overlap>>

\* lines 372-381: whatever the blob store answered, delete sessions[key]
\* and write the collection
deleteSession_afterBlob(p) ==
  LET fr == task[p] IN
  /\ fr.pc = "del_blob"
  /\ \E w \in {"ok", "err"} :
       /\ Allowed(w)
       /\ faultsLeft' = Charge(w)
       /\ store' = IF w = "ok" THEN Del(fr.snap, fr.key) ELSE store
       /\ task' = [task EXCEPT ![p] = [fr EXCEPT !.pc = "del_set", !.res = w]]
  /\ UNCHANGED <<currentSession, db, events, now, lastActiveKey, lastCleanup, blobs, heap, saveQueue,
                 saveInProgress, opsLeft, enq, qwrites, finDone, overlap>>

\* lines 383-387: toast
deleteSession_afterSet(p) ==
  LET fr == task[p] IN
  /\ fr.pc = "del_set"
  /\ task' = [task EXCEPT ![p] = Done(fr, fr.res)]
  /\ UNCHANGED <<currentSession, db, events, now, store, lastActiveKey, lastCleanup, blobs, heap, saveQueue,
                 saveInProgress, faultsLeft, opsLeft, enq, qwrites, finDone, overlap>>

----------------------------------------------------------------------------
(* beginSession: storage.js:212-248 *)

\* lines 213-224: build the session literal, read the collection
beginSession(p, k) ==
  /\ Call(p)
  /\ \E r \in {"ok", "err"} :
       /\ Allowed(r)
       /\ faultsLeft' = Charge(r)
       /\ task' = [task EXCEPT ![p] =
            [Idle EXCEPT !.pc = "beg_get", !.op = "begin", !.key = k, !.res = r,
                         !.rec = NewSession(now),
                         !.snap = IF r = "ok" THEN store ELSE <<>>]]
  /\ UNCHANGED <<currentSession, db, events, now, store, lastActiveKey, lastCleanup, blobs, heap, saveQueue,
                 saveInProgress, enq, qwrites>>

\* lines 228-236: create, or touch updatedAt of the stored record
Touch(c, k, fresh) ==
  IF ~Has(c, k) THEN Put(c, k, fresh)
  ELSE Put(c, k, [Get(c, k) EXCEPT !.updatedAt = now])

\* lines 225-241: create or touch, write collection and last active key
beginSession_afterGet(p) ==
  LET fr == task[p] IN
  /\ fr.pc = "beg_get"
  /\ IF fr.res # "ok"
     THEN /\ task' = [task EXCEPT ![p] = Idle]
          /\ UNCHANGED <<currentSession, db, store, lastActiveKey, faultsLeft>>
     ELSE \E w \in {"ok", "err"} :
            /\ Allowed(w)
            /\ faultsLeft' = Charge(w)
            /\ store' = IF w = "ok" THEN Touch(fr.snap, fr.key, fr.rec) ELSE store
            /\ lastActiveKey' = IF w = "ok" THEN fr.key ELSE lastActiveKey
            /\ task' = [task EXCEPT ![p] = [fr EXCEPT !.pc = "beg_set", !.res = w]]
  /\ UNCHANGED <<currentSession, db, events, now, lastCleanup, blobs, heap, saveQueue, saveInProgress,
                 opsLeft, enq, qwrites, finDone, overlap>>

\* lines 243-247: return
beginSession_afterSet(p) ==
  LET fr == task[p] IN
  /\ fr.pc = "beg_set"
  /\ task' = [task EXCEPT ![p] = Idle]
  /\ UNCHANGED <<currentSession, db, events, now, store, lastActiveKey, lastCleanup, blobs, heap, saveQueue,
                 saveInProgress, faultsLeft, opsLeft, enq, qwrites, finDone, overlap>>

----------------------------------------------------------------------------
(* The content script's marker handlers *)

\* CMBUtils.generateId(): an id no marker has had before
generateId == 10 + opsLeft

\* the data URL captured for the next marker (one picture stands for all)
pendingScreenshot == "a"

\* mutant: the record is added beside the one that has the same key
storeScreenshot_Add(markerId, sessionKey, dataUrl, r) ==
  IF r = "ok"
  THEN blobs \cup {[markerId |-> markerId, sessionKey |-> sessionKey,
                    dataUrl |-> dataUrl, createdAt |-> now]}
  ELSE blobs

\* screenshot-db.js:87-107: store.put under the id screenshot_<markerId>
storeScreenshot(markerId, sessionKey, dataUrl, r) ==
  IF r = "ok"
  THEN {b \in blobs : b.markerId # markerId}
         \cup {[markerId |-> markerId, sessionKey |-> sessionKey,
                dataUrl |-> dataUrl, createdAt |-> now]}
  ELSE blobs

\* saveSession's first part (storage.js:299-304) as the last statement of a
\* marker handler running in frame fr
SaveFrame(fr, o, k, r) ==
  [fr EXCEPT !.pc = "save_get", !.key = k, !.obj = o, !.res = r,
             !.n = Len(qwrites), !.snap = IF r = "ok" THEN store ELSE <<>>]

\* addMarker on session object o, whose url has key k: the marker literal;
\* with a pending screenshot the handler first awaits storeScreenshot, whose
\* owner key is that of the page (part_002:1012), whatever the session;
\* without one it pushes the marker and calls saveSession at once
addMarker(p, o, k, shot) ==
  /\ Call(p)
  /\ \E r \in {"ok", "err"} :
       /\ Allowed(r)
       /\ faultsLeft' = Charge(r)
       /\ IF shot
          THEN /\ blobs' = storeScreenshot(generateId, PageKey, pendingScreenshot, r)
               /\ heap' = heap
               /\ task' = [task EXCEPT ![p] =
                    [Idle EXCEPT !.pc = "am_blob", !.op = "addMarker", !.key = k,
                                 !.obj = o, !.res = r, !.mid = generateId]]
          ELSE /\ blobs' = blobs
               /\ heap' = [heap EXCEPT
                    ![o].markers = Append(@, [id |-> generateId, shot |-> FALSE]),
                    ![o].updatedAt = now]
               /\ task' = [task EXCEPT ![p] =
                    SaveFrame([Idle EXCEPT !.op = "addMarker", !.mid = generateId], o, k, r)]
  /\ UNCHANGED <<currentSession, db, events, now, store, lastActiveKey, lastCleanup, saveQueue,
                 saveInProgress, enq, qwrites>>

\* mutant: the screenshot id is set before the store has answered
Marker_Dangling(id, stored) == [id |-> id, shot |-> TRUE]

\* part_002:1000-1021: the marker with its pending screenshot; screenshotId
\* and hasScreenshot are assigned after the awaited store, inside the try
Marker(id, stored) == [id |-> id, shot |-> (stored = "ok")]

\* storeScreenshot has answered: the marker gets the screenshot id unless
\* the store failed (the catch only logs); push the marker, saveSession
addMarker_afterBlob(p) ==
  LET fr == task[p] IN
  /\ fr.pc = "am_blob"
  /\ \E r \in {"ok", "err"} :
       /\ Allowed(r)
       /\ faultsLeft' = Charge(r)
       /\ heap' = [heap EXCEPT
            ![fr.obj].markers = Append(@, Marker(fr.mid, fr.res)),
            ![fr.obj].updatedAt = now]
       /\ task' = [task EXCEPT ![p] =
            SaveFrame([fr EXCEPT !.blobErr = (fr.res # "ok")], fr.obj, fr.key, r)]
  /\ UNCHANGED <<currentSession, db, events, now, store, lastActiveKey, lastCleanup, blobs, saveQueue,
                 saveInProgress, opsLeft, enq, qwrites, finDone, overlap>>

\* undoLastMarker: nothing to undo is a toast; otherwise pop and saveSession
undoLastMarker(p, o, k) ==
  /\ heap[o].markers # <<>>
  /\ Call(p)
  /\ \E r \in {"ok", "err"} :
       /\ Allowed(r)
       /\ faultsLeft' = Charge(r)
       /\ heap' = [heap EXCEPT
            ![o].markers = SubSeq(@, 1, Len(@) - 1),
            ![o].updatedAt = now]
       /\ task' = [task EXCEPT ![p] = SaveFrame([Idle EXCEPT !.op = "undo"], o, k, r)]
  /\ UNCHANGED <<currentSession, db, events, now, store, lastActiveKey, lastCleanup, blobs, saveQueue,
                 saveInProgress, enq, qwrites>>

----------------------------------------------------------------------------
(* progressiveCleanup: storage.js:41-89 *)

\* lines 62-67: the keys whose session was last updated before the cutoff
\* (updatedAt is never 0 or missing in a stored session, so the || chain
\* yields updatedAt)
Aged(c) == {c[i].key : i \in {j \in DOMAIN c : c[j].rec.updatedAt < now - SessionMaxAge}}

\* mutant: the aged sessions are kept
Sweep_None(c) == c

\* lines 69-72: delete sessions[key] for each of them
Sweep(c) == SelectSeq(c, LAMBDA e : e.key \notin Aged(c))

\* history: a sweep was completed less than 24 hours ago
SweptToday == lastCleanup # 0 /\ lastCleanup > now - OneDay

\* lines 42-48: the frame of a sweep that has called cleanupOldScreenshots
StartSweep(op, b) ==
  [Idle EXCEPT !.pc = "pc_blob", !.op = op, !.pre = store,
               !.preBlobs = blobs, !.blobErr = (b = "err"), !.at = now,
               !.second = SweepRunning(AgePcs), !.recent = SweptToday,
               !.n = Cardinality(blobs \ cleanupOldScreenshots(ScreenshotMaxAge, b))]

\* lines 42-56: the sweep starts with the screenshots (called directly, as
\* manualCleanup does, part_002:1349)
progressiveCleanup(p) ==
  /\ Call(p)
  /\ \E b \in {"ok", "err"} :
       /\ Allowed(b)
       /\ faultsLeft' = Charge(b)
       /\ blobs' = cleanupOldScreenshots(ScreenshotMaxAge, b)
       /\ task' = [task EXCEPT ![p] = StartSweep("progressive", b)]
  /\ UNCHANGED <<currentSession, db, events, now, store, lastActiveKey, lastCleanup, heap, saveQueue,
                 saveInProgress, enq, qwrites>>

\* lines 53-59: the screenshot sweep has answered (a failure is only
\* logged); read the collection
progressiveCleanup_afterBlob(p) ==
  LET fr == task[p] IN
  /\ fr.pc = "pc_blob"
  /\ \E r \in {"ok", "err"} :
       /\ Allowed(r)
       /\ faultsLeft' = Charge(r)
       /\ task' = [task EXCEPT ![p] =
            [fr EXCEPT !.pc = "pc_get", !.res = r,
                       !.snap = IF r = "ok" THEN store ELSE <<>>]]
  /\ UNCHANGED <<currentSession, db, events, now, store, lastActiveKey, lastCleanup, blobs, heap, saveQueue,
                 saveInProgress, opsLeft, enq, qwrites, finDone, overlap>>

\* lines 60-80: filter, delete, write when something was deleted, then ask
\* for the settings; a failed read ends in the catch (return 0)
progressiveCleanup_afterGet(p) ==
  LET fr == task[p]
      gone == Aged(fr.snap)
  IN
  /\ fr.pc = "pc_get"
  /\ IF fr.res # "ok"
     THEN /\ task' = [task EXCEPT ![p] = Done([fr EXCEPT !.n = 0], "err")]
          /\ UNCHANGED <<currentSession, db, store, faultsLeft>>
     ELSE \E r \in {"ok", "err"} :
            /\ Allowed(r)
            /\ faultsLeft' = Charge(r)
            /\ IF gone # {}
               THEN /\ store' = IF r = "ok" THEN Sweep(fr.snap) ELSE store
                    /\ task' = [task EXCEPT ![p] =
                         [fr EXCEPT !.pc = "pc_set", !.res = r,
                                    !.n = fr.n + Cardinality(gone)]]
               ELSE /\ store' = store
                    /\ task' = [task EXCEPT ![p] = [fr EXCEPT !.pc = "pc_sget", !.res = r]]
  /\ UNCHANGED <<currentSession, db, events, now, lastActiveKey, lastCleanup, blobs, heap, saveQueue,
                 saveInProgress, opsLeft, enq, qwrites, finDone, overlap>>

\* lines 75-80: the collection is written; getSettings reads the settings
progressiveCleanup_afterSet(p) ==
  LET fr == task[p] IN
  /\ fr.pc = "pc_set"
  /\ IF fr.res # "ok"
     THEN /\ task' = [task EXCEPT ![p] = Done([fr EXCEPT !.n = 0], "err")]
          /\ UNCHANGED faultsLeft
     ELSE \E r \in {"ok", "err"} :
            /\ Allowed(r)
            /\ faultsLeft' = Charge(r)
            /\ task' = [task EXCEPT ![p] = [fr EXCEPT !.pc = "pc_sget", !.res = r]]
  /\ UNCHANGED <<currentSession, db, events, now, store, lastActiveKey, lastCleanup, blobs, heap, saveQueue,
                 saveInProgress, opsLeft, enq, qwrites, finDone, overlap>>

\* lines 80-82 with getSettings (394-408) and saveSettings (415-421):
\* getSettings answers the stored settings, defaults or {} (it catches);
\* settings.lastCleanup = Date.now() is written
progressiveCleanup_afterSettings(p) ==
  LET fr == task[p] IN
  /\ fr.pc = "pc_sget"
  /\ \E w \in {"ok", "err"} :
       /\ Allowed(w)
       /\ faultsLeft' = Charge(w)
       /\ lastCleanup' = IF w = "ok" THEN now ELSE lastCleanup
       /\ task' = [task EXCEPT ![p] = [fr EXCEPT !.pc = "pc_sset", !.res = "ok",
                                                 !.ret = w]]
  /\ UNCHANGED <<currentSession, db, events, now, store, lastActiveKey, blobs, heap, saveQueue,
                 saveInProgress, opsLeft, enq, qwrites, finDone, overlap>>

\* mutant: the sessions deleted are left out of the count
Returned_BlobsOnly(fr) == fr.n - (Len(fr.pre) - Len(store))

\* line 84: return cleanedCount
Returned(fr) == fr.n

\* lines 82-84: saveSettings has returned (it catches); return cleanedCount
progressiveCleanup_afterSave(p) ==
  LET fr == task[p] IN
  /\ fr.pc = "pc_sset"
  /\ task' = [task EXCEPT ![p] = Done([fr EXCEPT !.n = Returned(fr)], "ok")]
  /\ UNCHANGED <<currentSession, db, events, now, store, lastActiveKey, lastCleanup, blobs, heap, saveQueue,
                 saveInProgress, faultsLeft, opsLeft, enq, qwrites, finDone, overlap>>

\* mutant: the sweep is run whatever the settings say
Due_Always(last) == TRUE

\* part_002:1415: lastCleanup < oneDayAgo
Due(last) == last < now - OneDay

\* part_002:1409-1411: checkAndRunProgressiveCleanup asks for the settings
\* (getSettings catches a failed read and answers {})
checkAndRunProgressiveCleanup(p) ==
  /\ Call(p)
  /\ \E r \in {"ok", "err"} :
       /\ Allowed(r)
       /\ faultsLeft' = Charge(r)
       /\ task' = [task EXCEPT ![p] =
            [Idle EXCEPT !.pc = "auto_get", !.op = "auto", !.res = r,
                         !.n = IF r = "ok" THEN lastCleanup ELSE 0]]
  /\ UNCHANGED <<currentSession, db, events, now, store, lastActiveKey, lastCleanup, blobs, heap, saveQueue,
                 saveInProgress, enq, qwrites>>

\* part_002:1412-1423: run the sweep if the last one is more than a day old
checkAndRunProgressiveCleanup_afterGet(p) ==
  LET fr == task[p] IN
  /\ fr.pc = "auto_get"
  /\ IF Due(fr.n)
     THEN \E b \in {"ok", "err"} :
            /\ Allowed(b)
            /\ faultsLeft' = Charge(b)
            /\ blobs' = cleanupOldScreenshots(ScreenshotMaxAge, b)
            /\ task' = [task EXCEPT ![p] = StartSweep("auto", b)]
     ELSE /\ task' = [task EXCEPT ![p] =
               Done([fr EXCEPT !.n = 0, !.pre = store, !.preBlobs = blobs,
                               !.at = now], "skipped")]
          /\ UNCHANGED <<currentSession, db, blobs, faultsLeft>>
  /\ UNCHANGED <<currentSession, db, events, now, store, lastActiveKey, lastCleanup, heap, saveQueue,
                 saveInProgress, opsLeft, enq, qwrites, finDone, overlap>>

\* Date.now() moves on by a day between two calls (a call itself takes
\* milliseconds)
Tick ==
  /\ Quiescent
  /\ now < T0 + MaxTick
  /\ now' = now + 1
  /\ UNCHANGED <<currentSession, db, events, store, lastActiveKey, lastCleanup, blobs, heap, saveQueue,
                 saveInProgress, task, faultsLeft, opsLeft, enq, qwrites, finDone, overlap>>

----------------------------------------------------------------------------
(* Concurrent callers of save, finalize, delete and begin *)

InitQ ==
  /\ now = T0
  /\ store = <<>>
  /\ lastActiveKey = 0
  /\ lastCleanup = 0
  /\ blobs = {}
  /\ heap = [o \in ObjIds |-> [NewSession(T0) EXCEPT !.markers = <<[id |-> o, shot |-> FALSE]>>]]
  /\ saveQueue = <<>>
  /\ saveInProgress = FALSE
  /\ task = [p \in Procs |-> Idle]
  /\ faultsLeft = MaxFaults
  /\ opsLeft = MaxOps
  /\ enq = <<>>
  /\ qwrites = <<>>
  /\ finDone = {}
  /\ overlap = FALSE
  /\ events = NoEvents
  /\ db = FALSE
  /\ currentSession = PageSession

\* the session objects are interchangeable and so are the keys: the first
\* call of a run takes the first of each
FirstObjs == IF opsLeft = MaxOps THEN {1} ELSE ObjIds

FirstKeys == IF opsLeft = MaxOps THEN {1} ELSE QKeys

\* the callers use two keys, so cleanupOldSessions, when the drain loop
\* calls it, finds at most two sessions and returns at storage.js:100: its
\* later steps belong to the runs of SpecCap and SpecOwn
NextQ ==
  \E p \in Procs :
       \/ \E o \in FirstObjs, k \in FirstKeys : saveSession(p, o, k)
       \/ saveSession_afterGet(p)
       \/ checkStorageQuota_afterGet(p)
       \/ queuedSave_afterSet(p)
       \/ queuedSave_afterBackoff(p)
       \/ cleanupOldSessions_afterGet(p)
       \/ \E o \in FirstObjs, k \in FirstKeys : finalizeSession(p, o, k)
       \/ finalizeSession_afterGet(p)
       \/ finalizeSession_afterSet(p)
       \/ \E k \in FirstKeys : deleteSession(p, k)
       \/ deleteSession_afterGet(p)
       \/ deleteSession_afterBlob(p)
       \/ deleteSession_afterSet(p)
       \/ \E k \in FirstKeys : beginSession(p, k)
       \/ beginSession_afterGet(p)
       \/ beginSession_afterSet(p)

SpecQ == InitQ /\ [][NextQ]_vars

----------------------------------------------------------------------------
(* Capacity eviction on stores of up to MaxSessions sessions *)

\* a stored session with one marker, whose screenshot exists or not
Stored(k, t, shot) ==
  [NewSession(t) EXCEPT !.markers = <<[id |-> 20 + k, shot |-> shot]>>]

\* the screenshot of that marker, stored when the marker was added
BlobOf(k, t) ==
  [markerId |-> 20 + k, sessionKey |-> k, dataUrl |-> pendingScreenshot,
   createdAt |-> t]

Stamps == {T0 - 2, T0 - 1}

\* which of n sessions own a screenshot: none, all, every other one
OwnerSets(n) == {{}, 1..n, {i \in 1..n : i % 2 = 1}}

\* no call in progress, nothing queued, no history
AtRest ==
  /\ lastActiveKey = 0
  /\ lastCleanup = 0
  /\ heap = [o \in ObjIds |-> [NewSession(T0) EXCEPT !.markers = <<[id |-> o, shot |-> FALSE]>>]]
  /\ saveQueue = <<>>
  /\ saveInProgress = FALSE
  /\ task = [p \in Procs |-> Idle]
  /\ faultsLeft = MaxFaults
  /\ opsLeft = MaxOps
  /\ enq = <<>>
  /\ qwrites = <<>>
  /\ finDone = {}
  /\ overlap = FALSE
  /\ events = NoEvents
  /\ db = FALSE
  /\ currentSession = PageSession

InitCap ==
  /\ now = T0
  /\ \E n \in 0..MaxSessions :
       \E f \in [1..n -> Stamps], owners \in OwnerSets(n) :
         /\ store = [i \in 1..n |-> [key |-> i, rec |-> Stored(i, f[i], i \in owners)]]
         /\ blobs = {BlobOf(i, f[i]) : i \in owners}
  /\ AtRest

NextCap ==
  \/ cleanupOldSessions(1)
  \/ cleanupOldSessions_afterGet(1)
  \/ cleanupOldSessions_afterBlob(1)
  \/ cleanupOldSessions_afterSet(1)

SpecCap == InitCap /\ [][NextCap]_vars

----------------------------------------------------------------------------
(* Age eviction on stores whose sessions and screenshots are about as old  *)
(* as the two cutoffs                                                      *)

AgeStamps ==
  {T0 - SessionMaxAge - 1, T0 - SessionMaxAge, T0 - SessionMaxAge + 1,
   T0 - ScreenshotMaxAge - 1, T0 - ScreenshotMaxAge, T0 - ScreenshotMaxAge + 1}

\* a screenshot is stored before the save that stamps its session
InitAge ==
  /\ now = T0
  /\ \E n \in 0..MaxAged :
       \E f \in [1..n -> AgeStamps], g \in [1..n -> AgeStamps \cup {0}] :
         /\ \A i \in 1..n : g[i] <= f[i]
         /\ store = [i \in 1..n |-> [key |-> i, rec |-> Stored(i, f[i], g[i] # 0)]]
         /\ blobs = {BlobOf(i, g[i]) : i \in {j \in 1..n : g[j] # 0}}
  /\ AtRest

NextAge ==
  \/ progressiveCleanup(1)
  \/ progressiveCleanup_afterBlob(1)
  \/ progressiveCleanup_afterGet(1)
  \/ progressiveCleanup_afterSet(1)
  \/ progressiveCleanup_afterSettings(1)
  \/ progressiveCleanup_afterSave(1)
  \/ Tick

SpecAge == InitAge /\ [][NextAge]_vars

----------------------------------------------------------------------------
(* One page at work: markers added and undone on the current session,      *)
(* sessions deleted from the list, both sweeps, one call after the other   *)

\* the current session (object 1, key 1) as saved, and n - 1 sessions with a
\* screenshot each that were last touched before the session cutoff
OwnStore(n) ==
  [i \in 1..n |->
     [key |-> i,
      rec |-> IF i = 1 THEN [NewSession(T0) EXCEPT !.markers = <<[id |-> 1, shot |-> FALSE]>>]
              ELSE Stored(i, T0 - SessionMaxAge - 1, TRUE)]]

InitOwn ==
  /\ now = T0
  /\ \E n \in {2, KeepSessions + 1} :
       /\ store = OwnStore(n)
       /\ blobs = {BlobOf(i, T0 - SessionMaxAge - 1) : i \in 2..n}
  /\ AtRest

\* the keys deleteSession is called with: the two the page works with and
\* one that was never created
ListedKeys == QKeys \cup {KeepSessions + 2}

NextOwn ==
  \/ \E shot \in BOOLEAN : addMarker(1, 1, 1, shot)
  \/ addMarker_afterBlob(1)
  \/ undoLastMarker(1, 1, 1)
  \/ saveSession(1, 1, 1)
  \/ saveSession_afterGet(1)
  \/ checkStorageQuota_afterGet(1)
  \/ queuedSave_afterSet(1)
  \/ queuedSave_afterBackoff(1)
  \/ cleanupOldSessions(1)
  \/ cleanupOldSessions_afterGet(1)
  \/ cleanupOldSessions_afterBlob(1)
  \/ cleanupOldSessions_afterSet(1)
  \/ \E k \in ListedKeys : deleteSession(1, k)
  \/ deleteSession_afterGet(1)
  \/ deleteSession_afterBlob(1)
  \/ deleteSession_afterSet(1)
  \/ progressiveCleanup(1)
  \/ progressiveCleanup_afterBlob(1)
  \/ progressiveCleanup_afterGet(1)
  \/ progressiveCleanup_afterSet(1)
  \/ progressiveCleanup_afterSettings(1)
  \/ progressiveCleanup_afterSave(1)

SpecOwn == InitOwn /\ [][NextOwn]_vars

----------------------------------------------------------------------------
(* Claims about the write queue, checked under SpecQ *)

OpsUsed == MaxOps - opsLeft

\* every call so far was a saveSession whose value reached the queue
OnlySaves == Len(enq) = OpsUsed

\* no backend call failed and no entry was skipped or failed with a toast
NoFailure == faultsLeft = MaxFaults /\ \A i \in DOMAIN enq : enq[i].st # "signalled"

\* C1: no enqueued write is dropped without a signal. Once everything has
\* come to rest, each value handed to queuedSave was written (itself, or a
\* write carrying the very same collection), or a later value was written,
\* or a failure/capacity toast followed it.
C1_NoSilentDrop ==
  Quiescent =>
    \A i \in DOMAIN enq :
      \/ enq[i].st \in {"written", "signalled"}
      \/ \E j \in DOMAIN enq : j > i /\ enq[j].st = "written"
      \/ \E w \in DOMAIN qwrites : qwrites[w].res = "ok" /\ qwrites[w].coll = enq[i].val

\* C2: write coalescing. N saves on one key, all issued before the first
\* physical write, none failing, produce exactly one physical write, and it
\* carries the session passed to the last call.
C2_CoalesceToLast ==
  (/\ Quiescent
   /\ enq # <<>>
   /\ NoFailure
   /\ \A i \in DOMAIN enq : enq[i].early /\ enq[i].key = enq[1].key)
  => /\ Len(qwrites) = 1
     /\ qwrites[1].rec = enq[Len(enq)].arg

WritePcs == {"drain_set", "cl_set", "fin_set", "del_set", "beg_set", "pc_set", "pc_sset"}

\* C3 as stated: at most one physical write to the Primary KV Backend is in
\* flight, whoever issued it.
C3_OneWriteInFlight == Cardinality({p \in Procs : task[p].pc \in WritePcs}) <= 1

\* a write issued by the drain loop: the entry itself, or the collection
\* written by the cleanupOldSessions the drain loop called
QueueWrite(p) ==
  task[p].pc = "drain_set" \/ (task[p].pc = "cl_set" /\ FromDrain(task[p]))

\* C3 amended: at most one physical write issued by the drain loop is in
\* flight; writes issued directly (finalize, begin, delete, ...) may overlap it.
C3_OneQueueWriteInFlight == Cardinality({p \in Procs : QueueWrite(p)}) <= 1

C3_Witness ==
  \E p, q \in Procs : QueueWrite(p) /\ task[q].pc \in {"fin_set", "beg_set", "del_set"}

\* the session of the last save under each key is stored under that key
SavedSessionsStored ==
  \A i \in DOMAIN enq :
    (\A j \in DOMAIN enq : j > i => enq[j].key # enq[i].key)
      => Has(store, enq[i].key) /\ Get(store, enq[i].key) = enq[i].arg

\* saves of different sessions under different keys, each of them written
\* by the drain loop without a failure
DifferentSessionsWritten ==
  /\ OnlySaves
  /\ NoFailure
  /\ \A i \in DOMAIN enq : enq[i].st = "written"
  /\ \A i, j \in DOMAIN enq :
       i # j => enq[i].key # enq[j].key /\ enq[i].obj # enq[j].obj

\* C4 as stated: after saves of different sessions under different keys, in
\* any interleaving, the drained collection holds each session under its key.
C4_NoLostEdit == (Quiescent /\ DifferentSessionsWritten) => SavedSessionsStored

\* C4 amended: the same, for saves that did not overlap (each began after the
\* previous one had returned).
C4_SequentialSavesKept ==
  (Quiescent /\ DifferentSessionsWritten /\ ~overlap) => SavedSessionsStored

C4_Witness ==
  /\ Quiescent /\ DifferentSessionsWritten /\ ~overlap
  /\ Len(enq) = 2 /\ enq[1].key # enq[2].key /\ enq[1].obj # enq[2].obj
  /\ Len(store) = 2

\* C5: a finalize that returned without a backend error leaves the record
\* finalized once the queue has drained, whatever save was pending or in
\* flight when it ran. Every other call so far is a save, no backend call
\* failed, and a save under the finalized key passed the finalized session.
C5_FinalizeSticks ==
  (/\ Quiescent
   /\ finDone # {}
   /\ OpsUsed = Len(enq) + 1
   /\ NoFailure
   /\ \A i \in DOMAIN enq : enq[i].key \in finDone => heap[enq[i].obj].finalized)
  => \A k \in finDone : Has(store, k) /\ Get(store, k).finalized

----------------------------------------------------------------------------
(* Claims about capacity eviction, checked under SpecCap *)

\* cleanupOldSessions, called on its own, has returned
CleanupDone == task[1].pc = "done" /\ task[1].op = "cleanup"

Min(a, b) == IF a < b THEN a ELSE b

\* the keys the last cleanupOldSessions removed from the collection
Evicted == KeysOf(task[1].pre) \ KeysOf(store)

\* C6: after cleanupOldSessions has run to completion (its read and its
\* write succeeded) on a store of n sessions, min(n, 5) sessions are left,
\* each as it was stored, and none of them was updated less recently than
\* a session that was deleted.
\* Whether it succeeded or not, it deleted no session that was updated more
\* recently than one it kept, and kept at least min(n, 5).
C6_KeepsFiveMostRecent ==
  LET pre == task[1].pre IN
  /\ (CleanupDone /\ task[1].res = "ok") =>
       /\ Len(store) = Min(Len(pre), KeepSessions)
       /\ \A i \in DOMAIN store : \E j \in DOMAIN pre : pre[j] = store[i]
  /\ CleanupDone =>
       /\ Len(store) >= Min(Len(pre), KeepSessions)
       /\ \A j \in DOMAIN pre : \A i \in DOMAIN store :
            pre[j].key \in Evicted => store[i].rec.updatedAt >= pre[j].rec.updatedAt

C6_Witness ==
  /\ CleanupDone /\ task[1].res = "ok"
  /\ Len(task[1].pre) = KeepSessions + 2
  /\ Len(store) = KeepSessions
  /\ \E i, j \in DOMAIN task[1].pre :
       task[1].pre[i].rec.updatedAt # task[1].pre[j].rec.updatedAt

----------------------------------------------------------------------------
(* Claims about age eviction, checked under SpecAge *)

\* progressiveCleanup has returned after a sweep in which no call failed
SweepDone ==
  /\ task[1].pc = "done" /\ task[1].op = "progressive"
  /\ task[1].res = "ok" /\ ~task[1].blobErr

\* C8: after a sweep at time t in which no backend call failed, no
\* screenshot is older than t - 30 days and no session older than t - 90
\* days, and every screenshot and session at or newer than its cutoff is
\* still there.
C8_AgeSweep ==
  SweepDone =>
    LET fr == task[1] IN
    /\ \A b \in blobs : b.createdAt >= fr.at - ScreenshotMaxAge
    /\ \A i \in DOMAIN store : store[i].rec.updatedAt >= fr.at - SessionMaxAge
    /\ \A b \in fr.preBlobs : b.createdAt >= fr.at - ScreenshotMaxAge => b \in blobs
    /\ \A j \in DOMAIN fr.pre :
         fr.pre[j].rec.updatedAt >= fr.at - SessionMaxAge
           => \E i \in DOMAIN store : store[i] = fr.pre[j]

----------------------------------------------------------------------------
(* Claims about the two stores together, checked under SpecOwn *)

\* C9: once every call has completed, and no backend call has failed, each
\* screenshot's sessionKey names a session of the stored collection.
C9_BlobOwnerExists ==
  (Quiescent /\ faultsLeft = MaxFaults) => \A b \in blobs : Has(store, b.sessionKey)

\* deleteSession has returned after its write succeeded ('Session deleted')
DeleteDone == task[1].pc = "done" /\ task[1].op = "delete" /\ task[1].res = "ok"

\* neither the record nor a screenshot of key k is left, the rest is as in
\* the frame's snapshot of both stores
Cascaded(fr) ==
  /\ ~Has(store, fr.key)
  /\ OwnedBy(fr.key) = {}
  /\ store = Del(fr.pre, fr.key)
  /\ blobs = {b \in fr.preBlobs : b.sessionKey # fr.key}

----------------------------------------------------------------------------
(* Claims about deleteSession on a missing key, checked under SpecOwn *)

\* deleteSession has returned successfully for a key that had no record
DeleteOfMissing == DeleteDone /\ ~Has(task[1].pre, task[1].key)

\* the screenshots that were indexed under the frame's key when it was called
OwnedBefore(fr) == {b \in fr.preBlobs : b.sessionKey = fr.key}

----------------------------------------------------------------------------
(* Claims about beginSession, checked under SpecQ *)

\* caller p's beginSession performs its write in this step
BeginWrites(p) == task[p].pc = "beg_get" /\ task'[p].pc = "beg_set"

\* C12: beginSession is create-or-touch. When it writes and the store has no
\* record for its key, the key afterwards holds a new session with empty
\* markers; when the store has one, the record afterwards has the same
\* markers and createdAt; a failed write changes nothing. No write of
\* beginSession drops markers the store holds for its key.
C12_BeginCreatesOrTouches ==
  [][\A p \in Procs :
       BeginWrites(p) =>
         LET k == task[p].key IN
         IF Has(store, k)
         THEN /\ Has(store', k)
              /\ Get(store', k).markers = Get(store, k).markers
              /\ Get(store', k).createdAt = Get(store, k).createdAt
         ELSE store' # store =>
                (Has(store', k) /\ Get(store', k).markers = <<>>)]_vars

----------------------------------------------------------------------------
(* Claims about reading back what was saved, checked under SpecQ *)

\* C13: once the saves have fully drained, getSession of each saved key
\* returns a record, and its updatedAt is no less than the one the session
\* had before its save. Stated for runs of saves in which no backend call
\* failed, no entry was skipped for capacity and at most one physical write
\* was made, so that no later write replaced what the save stored.
C13_SavedIsReadable ==
  (Quiescent /\ OnlySaves /\ NoFailure /\ Len(qwrites) <= 1)
  => \A i \in DOMAIN enq :
       /\ getSession(enq[i].key) # <<>>
       /\ getSession(enq[i].key)[1].updatedAt >= enq[i].before

----------------------------------------------------------------------------
(* save, begin and finalize interleaved while the clock advances *)

\* Date.now() moves on while calls are suspended on the backend
ClockAdvances ==
  /\ now < T0 + MaxTick
  /\ now' = now + 1
  /\ UNCHANGED <<currentSession, db, events, store, lastActiveKey, lastCleanup, blobs, heap, saveQueue,
                 saveInProgress, task, faultsLeft, opsLeft, enq, qwrites, finDone, overlap>>

NextClock ==
  \/ \E p \in Procs :
       \/ \E o \in FirstObjs, k \in FirstKeys : saveSession(p, o, k)
       \/ saveSession_afterGet(p)
       \/ checkStorageQuota_afterGet(p)
       \/ queuedSave_afterSet(p)
       \/ queuedSave_afterBackoff(p)
       \/ cleanupOldSessions_afterGet(p)
       \/ \E o \in FirstObjs, k \in FirstKeys : finalizeSession(p, o, k)
       \/ finalizeSession_afterGet(p)
       \/ finalizeSession_afterSet(p)
       \/ \E k \in FirstKeys : beginSession(p, k)
       \/ beginSession_afterGet(p)
       \/ beginSession_afterSet(p)
  \/ ClockAdvances

SpecClock == InitQ /\ [][NextClock]_vars

\* C14: for every session key, the updatedAt of the stored record never
\* decreases from one state to the next, whatever save, begin or finalize
\* call takes the step, the clock itself never going back.
C14_UpdatedAtMonotonic ==
  [][\A k \in QKeys :
       (Has(store, k) /\ Has(store', k))
         => Get(store', k).updatedAt >= Get(store, k).updatedAt]_vars

----------------------------------------------------------------------------
(* One caller saving, the drain loop's history kept *)

InitDrain ==
  /\ now = T0
  /\ \E n \in {2, KeepSessions + 1} :
       /\ store = OwnStore(n)
       /\ blobs = {BlobOf(i, T0 - SessionMaxAge - 1) : i \in 2..n}
  /\ lastActiveKey = 0
  /\ lastCleanup = 0
  /\ heap = [o \in ObjIds |-> [NewSession(T0) EXCEPT !.markers = <<[id |-> o, shot |-> FALSE]>>]]
  /\ saveQueue = <<>>
  /\ saveInProgress = FALSE
  /\ task = [p \in Procs |-> Idle]
  /\ faultsLeft = Retries
  /\ opsLeft = MaxOps
  /\ enq = <<>>
  /\ qwrites = <<>>
  /\ finDone = {}
  /\ overlap = FALSE
  /\ events = [on |-> TRUE, log |-> <<>>]
  /\ db = FALSE
  /\ currentSession = PageSession

NextDrain ==
  \/ saveSession(1, 1, 1)
  \/ saveSession_afterGet(1)
  \/ checkStorageQuota_afterGet(1)
  \/ queuedSave_afterSet(1)
  \/ queuedSave_afterBackoff(1)
  \/ cleanupOldSessions_afterGet(1)
  \/ cleanupOldSessions_afterBlob(1)
  \/ cleanupOldSessions_afterSet(1)

SpecDrain == InitDrain /\ [][NextDrain]_vars

----------------------------------------------------------------------------
(* Claims about the quota check and the retry loop, checked under SpecDrain *)

EvLog == events.log

\* event i of the history is e with value v
Is(i, e, v) == i \in DOMAIN EvLog /\ EvLog[i].e = e /\ EvLog[i].v = v

\* C15: checkStorageQuota, having measured the storage. At or over the limit
\* it toasts, runs cleanupOldSessions to its end and then returns false; from
\* 80% of the limit up to the limit it shows the warning and returns true;
\* below it returns true without a warning. It returns false in no other case.
C15_QuotaCheck ==
  /\ \A i \in DOMAIN EvLog :
       EvLog[i].e = "measure" =>
         LET size == EvLog[i].v IN
         /\ size >= QuotaLimit =>
              /\ Is(i + 1, "toast_cleanup", 0)
              /\ Len(EvLog) >= i + 2 => (Is(i + 2, "evicted", 0) /\ Is(i + 3, "check", 0))
         /\ (WarnLimit <= size /\ size < QuotaLimit) =>
              (Is(i + 1, "toast_warn", 0) /\ Is(i + 2, "check", 1))
         /\ size < WarnLimit => Is(i + 1, "check", 1)
  /\ \A j \in DOMAIN EvLog :
       Is(j, "check", 0) =>
         /\ j >= 4
         /\ EvLog[j - 1].e = "evicted"
         /\ EvLog[j - 3].e = "measure" /\ EvLog[j - 3].v >= QuotaLimit

\* both thresholds met in one run: a check that returned false after an
\* eviction that deleted a session, and a check that warned
C15_Witness ==
  /\ \E j \in DOMAIN EvLog : Is(j, "check", 0)
  /\ \E j \in DOMAIN EvLog : EvLog[j].e = "toast_warn"
  /\ \E j \in DOMAIN EvLog : EvLog[j].e = "measure" /\ EvLog[j].v < WarnLimit
  /\ Len(store) = KeepSessions


\* event i reports a capacity condition for its entry: the quota check
\* returned false, or the write was answered with a quota error
Capacity(i) == Is(i, "check", 0) \/ Is(i, "quota", 0)

\* C16: capacity conditions are never retried. After a quota check that
\* returned false or a write answered with a quota error, the drain loop
\* issues no further write for that entry, cleanupOldSessions runs, and the
\* entry gets a capacity toast and never the 'Failed to save data' toast.
C16_CapacityNotRetried ==
  \A i \in DOMAIN EvLog :
    Capacity(i) =>
      LET x == EvLog[i].eid IN
      /\ \A j \in DOMAIN EvLog : (j > i /\ EvLog[j].eid = x) => EvLog[j].e # "set"
      /\ \A j \in DOMAIN EvLog : EvLog[j].eid = x => EvLog[j].e # "toast_failed"
      /\ Is(i, "check", 0) => (Is(i - 2, "toast_cleanup", 0) /\ Is(i - 1, "evicted", 0))
      /\ Is(i, "quota", 0) =>
           /\ Is(i + 1, "toast_export", 0)
           /\ task[1].pc \in {"cl_get", "cl_blob", "cl_set"} \/ Is(i + 2, "evicted", 0)

\* both capacity conditions met: an entry skipped by the quota check, and an
\* entry whose second attempt was answered with a quota error
C16_Witness ==
  /\ Quiescent
  /\ \E i \in DOMAIN EvLog : Is(i, "check", 0)
  /\ \E i \in DOMAIN EvLog :
       /\ Is(i, "quota", 0)
       /\ \E j \in 1..(i - 1) : EvLog[j].eid = EvLog[i].eid /\ EvLog[j].e = "err"


\* the events of kind e recorded for entry x among the first i events
Count(e, x, i) == Cardinality({j \in 1..i : EvLog[j].e = e /\ EvLog[j].eid = x})

\* C17: the retry budget. For each entry the drain loop issues at most three
\* writes; a write answered with a transient error is followed by a timer of
\* (attempt x 1000) ms and then by the next attempt, unless it was the third,
\* which is followed by the 'Failed to save data' toast; no write follows a
\* successful one; the toast is shown once, and exactly for the entries whose
\* three writes were all answered with transient errors.
C17_RetryBudget ==
  LET n == Len(EvLog) IN
  \A x \in DOMAIN enq :
    /\ Count("set", x, n) <= Retries
    /\ \A i \in DOMAIN EvLog :
         (EvLog[i].eid = x /\ EvLog[i].e = "err") =>
           LET attempt == Count("err", x, i) IN
           IF attempt < Retries
           THEN /\ Is(i + 1, "wait", 1000 * attempt)
                /\ n >= i + 2 => EvLog[i + 2].e \in {"measure", "nomeasure"}
           ELSE Is(i + 1, "toast_failed", 0) /\ EvLog[i + 1].eid = x
    /\ \A i \in DOMAIN EvLog :
         (EvLog[i].eid = x /\ EvLog[i].e = "ok") =>
           \A j \in DOMAIN EvLog : (j > i /\ EvLog[j].eid = x) => EvLog[j].e # "set"
    /\ Count("toast_failed", x, n) <= 1
    /\ Count("toast_failed", x, n) = 1 <=>
         (Count("err", x, n) = Retries /\ Count("set", x, n) = Retries)

\* an entry that used up its budget, both timers behind it, and an entry
\* that was written
C17_Witness ==
  /\ Quiescent
  /\ \E i \in DOMAIN EvLog :
       /\ EvLog[i].e = "toast_failed"
       /\ \E j, k \in 1..i : Is(j, "wait", 1000) /\ Is(k, "wait", 2000)
  /\ \E i \in DOMAIN EvLog : EvLog[i].e = "ok"

----------------------------------------------------------------------------
(* The two sweeps called by two callers *)

NextSweep ==
  \/ \E p \in Procs :
       \/ cleanupOldSessions(p)
       \/ cleanupOldSessions_afterGet(p)
       \/ cleanupOldSessions_afterBlob(p)
       \/ cleanupOldSessions_afterSet(p)
       \/ progressiveCleanup(p)
       \/ progressiveCleanup_afterBlob(p)
       \/ progressiveCleanup_afterGet(p)
       \/ progressiveCleanup_afterSet(p)
       \/ progressiveCleanup_afterSettings(p)
       \/ progressiveCleanup_afterSave(p)
       \/ checkAndRunProgressiveCleanup(p)
       \/ checkAndRunProgressiveCleanup_afterGet(p)
  \/ Tick

SpecSweep == InitOwn /\ [][NextSweep]_vars

----------------------------------------------------------------------------
(* Claims about the sweeps, checked under SpecSweep *)

\* C18: a sweep invoked while a sweep of the same kind is in progress is a
\* no-op: none of its steps, the invocation included, deletes a screenshot
\* or a session or writes to the storage. Stated for runs in which no
\* backend call has failed.
C18_SweepsExclusive ==
  [][\A q \in Procs :
       (/\ task[q].second \/ task'[q].second
        /\ task'[q] # task[q]
        /\ faultsLeft' = MaxFaults)
         => (store' = store /\ blobs' = blobs /\ lastCleanup' = lastCleanup)]_vars


\* C19 as stated: age eviction invoked, by any caller, less than 24 hours
\* after a completed age sweep is a no-op: none of its steps, the
\* invocation included, deletes a screenshot or a session. Stated for an
\* invocation made while no other call is in progress.
C19_AgeSweepOncePerDay ==
  [][\A q \in Procs :
       (/\ task[q].recent \/ task'[q].recent
        /\ task'[q] # task[q]
        /\ \A r \in Procs \ {q} : Resting(r))
       => (store' = store /\ blobs' = blobs)]_vars

\* C19 amended: checkAndRunProgressiveCleanup, having read a lastCleanup that
\* is at most 24 hours old, returns without calling progressiveCleanup and
\* changes neither store.
C19_AutoSweepOncePerDay ==
  [][\A q \in Procs :
       (/\ task[q].pc = "auto_get"
        /\ task[q].res = "ok"
        /\ task[q].n # 0 /\ task[q].n >= now - OneDay
        /\ task'[q] # task[q])
       => /\ task'[q].pc = "done" /\ task'[q].res = "skipped"
          /\ store' = store /\ blobs' = blobs /\ lastCleanup' = lastCleanup]_vars

\* the scheduled check has returned without sweeping, within the day of the
\* last sweep, although a screenshot past its age is stored
C19_Witness ==
  \E q \in Procs :
    /\ task[q].pc = "done" /\ task[q].op = "auto" /\ task[q].res = "skipped"
    /\ lastCleanup = now
    /\ \E b \in blobs : b.createdAt <= now - ScreenshotMaxAge


\* caller q's sweep returns in this step, after a run in which no call
\* began while another was in progress
SweepReturns(q, pcs) ==
  task[q].pc \in pcs /\ task'[q].pc = "done" /\ task'[q].res = "ok" /\ ~overlap

\* the sessions and screenshots gone since caller q's sweep began
DeletedSince(fr) ==
  (Len(fr.pre) - Len(store)) + Cardinality(fr.preBlobs \ blobs)

----------------------------------------------------------------------------
(* Claims about sweeps with a failing blob store, checked under SpecOwn *)

\* a sweep of this kind has returned, its reads and writes of the storage
\* having succeeded and a call to the blob store having failed
SweptWithoutBlobs(op) ==
  /\ task[1].pc = "done" /\ task[1].op = op
  /\ task[1].res = "ok" /\ task[1].blobErr

\* the sessions of collection c that are not in the store any more
Gone(c) == {i \in DOMAIN c : ~Has(store, c[i].key)}

\* C21: a failing blob store does not abort a sweep. The age sweep still
\* deletes exactly the sessions older than 90 days, counts them and nothing
\* for the screenshots, which stay; the capacity sweep still leaves exactly
\* the five most recently updated sessions.
C21_SweepsTolerateBlobFailure ==
  LET fr == task[1] IN
  /\ SweptWithoutBlobs("progressive") =>
       /\ \A i \in DOMAIN fr.pre :
            i \in Gone(fr.pre) <=> fr.pre[i].rec.updatedAt < fr.at - SessionMaxAge
       /\ fr.n = Cardinality(Gone(fr.pre))
       /\ blobs = fr.preBlobs
  /\ SweptWithoutBlobs("cleanup") =>
       /\ Len(store) = Min(Len(fr.pre), KeepSessions)
       /\ \A i \in DOMAIN store : \E j \in DOMAIN fr.pre : fr.pre[j] = store[i]
       /\ \A i \in Gone(fr.pre), j \in DOMAIN store :
            fr.pre[i].rec.updatedAt <= store[j].rec.updatedAt

\* the age sweep has deleted sessions although its screenshot sweep failed
C21_Witness ==
  /\ SweptWithoutBlobs("progressive")
  /\ Gone(task[1].pre) # {}
  /\ \E b \in blobs : b.createdAt <= task[1].at - ScreenshotMaxAge


\* C22: partial progress of the age sweep is reported. When the sweep has
\* deleted k > 0 screenshots and then fails on the read or the write of the
\* collection, the screenshots stay deleted and the count it returns is at
\* least k.
C22_PartialProgressReported ==
  LET fr == task[1]
      k == Cardinality(fr.preBlobs \ blobs)
  IN
  (fr.pc = "done" /\ fr.op = "progressive" /\ fr.res = "err" /\ k > 0)
    => fr.n >= k


----------------------------------------------------------------------------
(* The screenshot store on its own (screenshot-db.js): every operation
   awaits initDB and then one request on the object store. A request is
   decided when it is issued: it succeeds, fails, or is never answered. *)

Payloads == {"", pendingScreenshot}

MarkerIds == {20 + k : k \in QKeys}

BlobOps ==
  {"storeScreenshot", "getScreenshot", "deleteScreenshot",
   "deleteSessionScreenshots", "cleanupOldScreenshots", "getStorageStats"}

BlobOutcomes == {"ok", "err", "hang"}

\* the records of the object store whose key is screenshot_<id>
Lookup(bs, id) == {b \in bs : b.markerId = id}

\* mutant: an empty data URL is taken for a missing record
getScreenshot_Truthy(bs, id) ==
  IF Lookup(bs, id) # {} /\ (CHOOSE b \in Lookup(bs, id) : TRUE).dataUrl # ""
  THEN (CHOOSE b \in Lookup(bs, id) : TRUE).dataUrl
  ELSE "null"

\* getScreenshot's onsuccess: result ? result.dataUrl : null
getScreenshot(bs, id) ==
  IF Lookup(bs, id) # {}
  THEN (CHOOSE b \in Lookup(bs, id) : TRUE).dataUrl
  ELSE "null"

\* what the request of call fr leaves in the object store
Transact(fr, r) ==
  CASE fr.op = "storeScreenshot" -> storeScreenshot(fr.mid, fr.key, fr.val, r)
    [] fr.op = "deleteScreenshot" ->
         IF r = "ok" THEN blobs \ Lookup(blobs, fr.mid) ELSE blobs
    [] fr.op = "deleteSessionScreenshots" -> deleteSessionScreenshots(fr.key, r)
    [] fr.op = "cleanupOldScreenshots" -> cleanupOldScreenshots(ScreenshotMaxAge, r)
    [] OTHER -> blobs

\* the call once its request is issued: what it will resolve with (the
\* stored data URL, the deleted or stored count) is fixed by the store as
\* the request finds it
Request(fr, r) ==
  [fr EXCEPT
     !.pc = IF r = "hang" THEN "tx_hung" ELSE "tx",
     !.res = r,
     !.preBlobs = blobs,
     !.val = IF r # "ok" THEN "none"
             ELSE IF fr.op = "getScreenshot" THEN getScreenshot(blobs, fr.mid)
             ELSE IF fr.op = "deleteScreenshot" THEN "true"
             ELSE fr.val,
     !.n = IF r # "ok" THEN 0
           ELSE IF fr.op = "getStorageStats" THEN Cardinality(blobs)
           ELSE Cardinality(blobs \ Transact(fr, r))]

\* the frame of a blob store call that has settled
Settled(fr, r) ==
  [Done(fr, r) EXCEPT !.mid = fr.mid, !.val = IF r = "ok" THEN fr.val ELSE "none"]

\* a caller invokes an operation: with a cached connection the request is
\* issued at once, otherwise initDB opens the database first
BlobCall(p, op, id, k, d) ==
  /\ Call(p)
  /\ \E r \in BlobOutcomes :
       /\ Allowed(r)
       /\ faultsLeft' = Charge(r)
       /\ LET fr == [Idle EXCEPT !.op = op, !.mid = id, !.key = k, !.val = d] IN
          IF db
          THEN /\ blobs' = Transact(fr, r)
               /\ task' = [task EXCEPT ![p] = Request(fr, r)]
          ELSE /\ blobs' = blobs
               /\ task' = [task EXCEPT ![p] =
                    [fr EXCEPT !.pc = IF r = "hang" THEN "db_hung" ELSE "db_open",
                               !.res = r]]
  /\ UNCHANGED <<currentSession, db, events, now, store, lastActiveKey, lastCleanup, heap,
                 saveQueue, saveInProgress, enq, qwrites>>

\* indexedDB.open has answered: onsuccess caches the connection and the
\* operation issues its request, onerror rejects
initDB_afterOpen(p) ==
  LET fr == task[p] IN
  /\ fr.pc = "db_open"
  /\ IF fr.res = "ok"
     THEN /\ db' = TRUE
          /\ \E r \in BlobOutcomes :
               /\ Allowed(r)
               /\ faultsLeft' = Charge(r)
               /\ blobs' = Transact(fr, r)
               /\ task' = [task EXCEPT ![p] = Request(fr, r)]
     ELSE /\ task' = [task EXCEPT ![p] = Settled(fr, "err")]
          /\ UNCHANGED <<currentSession, db, blobs, faultsLeft>>
  /\ UNCHANGED <<currentSession, events, now, store, lastActiveKey, lastCleanup, heap, saveQueue,
                 saveInProgress, opsLeft, enq, qwrites, finDone, overlap>>

\* the 10 s timer of initDB fires on an open that was not answered
initDB_timeout(p) ==
  LET fr == task[p] IN
  /\ fr.pc = "db_hung"
  /\ task' = [task EXCEPT ![p] = Settled(fr, "err")]
  /\ UNCHANGED <<currentSession, db, events, now, store, lastActiveKey, lastCleanup, blobs, heap,
                 saveQueue, saveInProgress, faultsLeft, opsLeft, enq, qwrites,
                 finDone, overlap>>

\* the request's onsuccess or onerror settles the operation's promise; a
\* request that is never answered has no handler that runs
request_answered(p) ==
  LET fr == task[p] IN
  /\ fr.pc = "tx"
  /\ task' = [task EXCEPT ![p] = Settled(fr, fr.res)]
  /\ UNCHANGED <<currentSession, db, events, now, store, lastActiveKey, lastCleanup, blobs, heap,
                 saveQueue, saveInProgress, faultsLeft, opsLeft, enq, qwrites,
                 finDone, overlap>>

\* db.onclose: the connection was closed under the page
db_onclose ==
  /\ db
  /\ \A p \in Procs : task[p].pc # "tx"
  /\ db' = FALSE
  /\ UNCHANGED <<currentSession, events, now, store, lastActiveKey, lastCleanup, blobs, heap,
                 saveQueue, saveInProgress, task, faultsLeft, opsLeft, enq,
                 qwrites, finDone, overlap>>

\* a store that holds any of a fresh screenshot of session 1 and an old one
\* of session 2
InitBlob ==
  /\ now = T0
  /\ store = <<>>
  /\ blobs \in SUBSET {BlobOf(1, T0), BlobOf(2, T0 - ScreenshotMaxAge)}
  /\ AtRest

NextBlob ==
  \/ \E id \in MarkerIds, k \in QKeys, d \in Payloads :
       BlobCall(1, "storeScreenshot", id, k, d)
  \/ \E id \in MarkerIds : BlobCall(1, "getScreenshot", id, 0, "none")
  \/ \E id \in MarkerIds : BlobCall(1, "deleteScreenshot", id, 0, "none")
  \/ \E k \in QKeys : BlobCall(1, "deleteSessionScreenshots", 0, k, "none")
  \/ BlobCall(1, "cleanupOldScreenshots", 0, 0, "none")
  \/ BlobCall(1, "getStorageStats", 0, 0, "none")
  \/ initDB_afterOpen(1)
  \/ initDB_timeout(1)
  \/ request_answered(1)
  \/ db_onclose

SpecBlob == InitBlob /\ [][NextBlob]_vars


----------------------------------------------------------------------------
(* Claims about the screenshot store, checked under SpecBlob *)

\* in this step call p issues the request of operation op, which succeeds
Issues(p, op) ==
  /\ task[p].pc # "tx" /\ task'[p].pc = "tx"
  /\ task'[p].op = op /\ task'[p].res = "ok"

\* C23: right after a successful storeScreenshot(markerId, sessionKey,
\* dataUrl) the store holds one record under that id and getScreenshot of
\* it yields dataUrl; a successful deleteSessionScreenshots(sessionKey)
\* removes exactly the records owned by sessionKey, resolves with their
\* number, and getScreenshot of each of their ids then yields null.
C23_BlobRoundTrip ==
  [][\A p \in Procs :
       LET fr == task'[p] IN
       /\ Issues(p, "storeScreenshot") =>
            /\ Cardinality(Lookup(blobs', fr.mid)) = 1
            /\ getScreenshot(blobs', fr.mid) = fr.val
       /\ Issues(p, "deleteSessionScreenshots") =>
            /\ blobs' = {b \in blobs : b.sessionKey # fr.key}
            /\ fr.n = Cardinality({b \in blobs : b.sessionKey = fr.key})
            /\ \A b \in blobs :
                 b.sessionKey = fr.key => getScreenshot(blobs', b.markerId) = "null"]_vars

\* an empty data URL was stored over an old screenshot, and then the
\* screenshots of the other session were deleted: one was, the stored one
\* is still there
C23_Witness ==
  \E p \in Procs :
    /\ task[p].pc = "done" /\ task[p].op = "deleteSessionScreenshots"
    /\ task[p].res = "ok" /\ task[p].n = 1
    /\ \E b \in blobs : b.dataUrl = "" /\ b.sessionKey # task[p].key


\* C24: a blob store call that has not settled can always take a step that
\* settles it or brings it nearer: its open or its request is answered, or
\* a timer is pending that will reject it. No call is left with nothing
\* that can ever complete it.
C24_EveryCallCanComplete ==
  \A p \in Procs :
    ~Resting(p) =>
      ENABLED (initDB_afterOpen(p) \/ initDB_timeout(p) \/ request_answered(p))


\* C25: a getScreenshot that settles resolves exactly when its open and its
\* request both succeeded, and then with null exactly when the store held
\* no record under the id; when the open fails or times out, or the request
\* fails, it rejects and nothing (null included) is returned.
C25_GetDistinguishesAbsence ==
  [][\A p \in Procs :
       LET fr == task[p]
           to == task'[p]
       IN  (fr.op = "getScreenshot" /\ ~Resting(p) /\ to.pc = "done") =>
             /\ (to.res = "ok") <=> (fr.pc = "tx" /\ fr.res = "ok")
             /\ (to.res = "ok") =>
                  ((to.val = "null") <=> (Lookup(fr.preBlobs, fr.mid) = {}))
             /\ (to.res # "ok") => (to.res = "err" /\ to.val = "none")]_vars

\* getScreenshot of an id the store does not hold has been rejected, the
\* backend being unavailable: the caller was not told that it is absent
C25_Witness ==
  \E p \in Procs :
    /\ task[p].pc = "done" /\ task[p].op = "getScreenshot"
    /\ task[p].res = "err" /\ task[p].val # "null"
    /\ Lookup(blobs, task[p].mid) = {}


----------------------------------------------------------------------------
(* Claims about markers and their screenshots, checked under SpecOwn *)

\* the last marker of a list
LastMarker(ms) == ms[Len(ms)]

\* C26: when storeScreenshot fails inside addMarker, the marker is pushed
\* on the session without a screenshot id, nothing is stored under its id,
\* and addMarker goes on to saveSession with that session; a write that the
\* save then gets through holds the session with that marker. A marker that
\* is pushed with a screenshot id has its screenshot in the store.
C26_MarkerWithoutScreenshot ==
  [][LET fr == task[1] IN
     /\ (fr.pc = "am_blob" /\ fr.res # "ok") =>
          /\ heap'[fr.obj].markers =
               Append(heap[fr.obj].markers, [id |-> fr.mid, shot |-> FALSE])
          /\ Lookup(blobs', fr.mid) = {}
          /\ task'[1].pc = "save_get"
          /\ task'[1].obj = fr.obj /\ task'[1].key = fr.key
     /\ (fr.op = "addMarker" /\ fr.blobErr /\ Len(qwrites') > Len(qwrites)
           /\ qwrites'[Len(qwrites')].res = "ok") =>
          /\ Has(store', fr.key)
          /\ Get(store', fr.key).markers = heap[fr.obj].markers
          /\ LastMarker(heap[fr.obj].markers) = [id |-> fr.mid, shot |-> FALSE]
     /\ \A o \in ObjIds :
          (Len(heap'[o].markers) > Len(heap[o].markers)
             /\ LastMarker(heap'[o].markers).shot) =>
            \E b \in blobs' :
              /\ b.markerId = LastMarker(heap'[o].markers).id
              /\ b.sessionKey = fr.key]_vars

\* addMarker's screenshot could not be stored and its save has been
\* written: the stored session ends with the marker, without a screenshot
C26_Witness ==
  LET fr == task[1] IN
  /\ fr.pc = "drain_set" /\ fr.op = "addMarker" /\ fr.res = "ok" /\ fr.blobErr
  /\ Has(store, fr.key)
  /\ LastMarker(Get(store, fr.key).markers) = [id |-> fr.mid, shot |-> FALSE]
  /\ Lookup(blobs, fr.mid) = {}


----------------------------------------------------------------------------
(* The read paths of the session store (storage.js): one read of the
   storage inside a try whose catch returns a value. *)

ReadOps == {"getSession", "getCurrentSession", "listSessions", "getStorageStats"}

\* SUM of s.markers.length over the entries of c from position i on
RECURSIVE MarkersFrom(_, _)
MarkersFrom(c, i) ==
  IF i > Len(c) THEN 0 ELSE Len(c[i].rec.markers) + MarkersFrom(c, i + 1)

\* storage.js:270-285: the active session if its key is set and stored,
\* else the session of the page's URL (key k), else null
getCurrentSession(c, active, k) ==
  IF active # 0 /\ Has(c, active) THEN <<[key |-> active, rec |-> Get(c, active)]>>
  ELSE IF Has(c, k) THEN <<[key |-> k, rec |-> Get(c, k)]>>
  ELSE <<>>

\* storage.js:349-351: the entries sorted by updatedAt, most recent first
listSessions(c) ==
  [n \in 1..Len(c) |-> c[CHOOSE i \in DOMAIN c : Rank(c, i) = n]]

\* what the try block of read op returns on the storage as it is
ReadValue(op, k) ==
  CASE op = "getSession" ->
         [NoOut EXCEPT !.list = IF Has(store, k)
                                THEN <<[key |-> k, rec |-> Get(store, k)]>> ELSE <<>>]
    [] op = "getCurrentSession" ->
         [NoOut EXCEPT !.list = getCurrentSession(store, lastActiveKey, k)]
    [] op = "listSessions" -> [NoOut EXCEPT !.list = listSessions(store)]
    [] OTHER ->
         [NoOut EXCEPT !.sessionCount = Len(store),
                       !.markerCount = MarkersFrom(store, 1)]

\* mutant: the catch logs and rethrows, as saveSession's does
Caught_Rethrow(r) == r

\* the catch of a read path returns a value: the promise is fulfilled
Caught(r) == "ok"

\* a caller invokes a read: chrome.storage.local.get is issued
ReadCall(p, op, k) ==
  /\ Call(p)
  /\ \E r \in {"ok", "err"} :
       /\ Allowed(r)
       /\ faultsLeft' = Charge(r)
       /\ task' = [task EXCEPT ![p] =
            [Idle EXCEPT !.pc = "rd_get", !.op = op, !.key = k, !.res = r,
                         !.out = IF r = "ok" THEN ReadValue(op, k) ELSE NoOut]]
  /\ UNCHANGED <<currentSession, db, events, now, store, lastActiveKey, lastCleanup, blobs, heap,
                 saveQueue, saveInProgress, enq, qwrites>>

\* the read has answered: the value of the try block, or that of the catch
\* (null, [], zero counts)
Read_afterGet(p) ==
  LET fr == task[p] IN
  /\ fr.pc = "rd_get"
  /\ task' = [task EXCEPT ![p] =
       [Done(fr, Caught(fr.res)) EXCEPT
          !.out = IF fr.res = "ok" THEN fr.out ELSE NoOut]]
  /\ UNCHANGED <<currentSession, db, events, now, store, lastActiveKey, lastCleanup, blobs, heap,
                 saveQueue, saveInProgress, faultsLeft, opsLeft, enq, qwrites,
                 finDone, overlap>>

\* a storage with no session or with a fresh and an old one, the active key
\* unset, stored, or naming a session that is gone
InitRead ==
  /\ now = T0
  /\ store \in {<<>>, OwnStore(2)}
  /\ blobs = {BlobOf(i, T0 - SessionMaxAge - 1) : i \in 2..Len(store)}
  /\ lastActiveKey \in {0, 2, 3}
  /\ lastCleanup = 0
  /\ heap = [o \in ObjIds |-> NewSession(T0)]
  /\ saveQueue = <<>>
  /\ saveInProgress = FALSE
  /\ task = [p \in Procs |-> Idle]
  /\ faultsLeft = MaxFaults
  /\ opsLeft = MaxOps
  /\ enq = <<>>
  /\ qwrites = <<>>
  /\ finDone = {}
  /\ overlap = FALSE
  /\ events = NoEvents
  /\ db = FALSE
  /\ currentSession = PageSession

NextRead ==
  \E p \in Procs :
    \/ \E k \in ListedKeys : ReadCall(p, "getSession", k)
    \/ \E k \in ListedKeys : ReadCall(p, "getCurrentSession", k)
    \/ ReadCall(p, "listSessions", 0)
    \/ ReadCall(p, "getStorageStats", 0)
    \/ Read_afterGet(p)

SpecRead == InitRead /\ [][NextRead]_vars

----------------------------------------------------------------------------
(* Claims about the read paths, checked under SpecRead *)

\* C27: a read of the session store is always fulfilled, never rejected;
\* when its read of the storage fails, getSession and getCurrentSession
\* return null, listSessions returns the empty list and getStorageStats
\* zero counts; and no step of a read changes the sessions, the active key,
\* the settings or the screenshots.
C27_ReadsNeverThrow ==
  [][\A p \in Procs :
       LET fr == task[p]
           to == task'[p]
       IN  /\ (to.op \in ReadOps /\ to # fr) =>
                /\ store' = store /\ blobs' = blobs
                /\ lastActiveKey' = lastActiveKey /\ lastCleanup' = lastCleanup
           /\ (fr.pc = "rd_get" /\ to # fr) =>
                /\ to.pc = "done" /\ to.res = "ok"
                /\ (fr.res # "ok") =>
                     /\ to.out.list = <<>>
                     /\ to.out.sessionCount = 0 /\ to.out.markerCount = 0]_vars

\* getSession of a stored key has returned null, and listSessions, running
\* beside it, sees the two stored sessions: the first one's read had failed
C27_Witness ==
  \E p, q \in Procs :
    /\ task[p].pc = "done" /\ task[p].op = "getSession"
    /\ Has(store, task[p].key) /\ task[p].out.list = <<>>
    /\ task[q].pc = "done" /\ task[q].op = "listSessions"
    /\ Len(task[q].out.list) = 2


----------------------------------------------------------------------------
(* Claims about failure signals of the session store, checked under SpecQ *)

\* in this step call p returns, the write it had issued having failed
ReturnsUnwritten(p) ==
  /\ task[p].pc \in {"drain_set", "fin_set", "beg_set", "del_set"}
  /\ task[p].res # "ok"
  /\ Resting(p)'

\* what tells the caller or the user of the failure: the call ends with a
\* failed result, or a toast reports the values that were not written
FailureSignal(p) ==
  \/ task'[p].pc = "done" /\ task'[p].res # "ok"
  \/ enq' # enq

\* C28: a save, finalize, begin or delete whose write failed does not
\* return as a successful one does: it ends with a failure result or with
\* a failure toast.
C28_LostWriteIsSignalled ==
  [][\A p \in Procs : ReturnsUnwritten(p) => FailureSignal(p)]_vars


----------------------------------------------------------------------------
(* Saves of sessions that violate the data model: the callers of SpecQ
   holding one session whose marker has a negative timestamp and one
   whose marker is well formed *)

\* the marker of a caller's session, with its timestamp in seconds
TimedMarker(o, t) == [id |-> o, shot |-> FALSE, t |-> t]

InitValid ==
  /\ now = T0
  /\ store = <<>>
  /\ lastActiveKey = 0
  /\ lastCleanup = 0
  /\ blobs = {}
  /\ heap = [o \in ObjIds |->
               [NewSession(T0) EXCEPT
                  !.markers = <<TimedMarker(o, IF o = 1 THEN -1 ELSE 0)>>]]
  /\ saveQueue = <<>>
  /\ saveInProgress = FALSE
  /\ task = [p \in Procs |-> Idle]
  /\ faultsLeft = MaxFaults
  /\ opsLeft = MaxOps
  /\ enq = <<>>
  /\ qwrites = <<>>
  /\ finDone = {}
  /\ overlap = FALSE
  /\ events = NoEvents
  /\ db = FALSE
  /\ currentSession = PageSession

SpecValid == InitValid /\ [][NextQ]_vars

\* the data model of a session: every marker's timestamp is at least 0
ValidSession(s) == \A i \in DOMAIN s.markers : s.markers[i].t >= 0

\* C29: a session that violates the data model is never handed to the
\* write queue and never stored: what has been enqueued and what the
\* storage holds are valid sessions.
C29_MalformedNeverPersisted ==
  /\ \A i \in DOMAIN enq : ValidSession(enq[i].arg)
  /\ \A i \in DOMAIN store : ValidSession(store[i].rec)


----------------------------------------------------------------------------
(* Export and import (storage.js:465-496): exportAllData returns what
   chrome.storage.local.get(null) returns, importData hands the data of a
   backup file to chrome.storage.local.set. The page imports the backups of
   other installations into its own, empty at first. *)

\* what get(null) returns for a storage: the collection if the key was ever
\* written, the active key and the settings (0 = not set)
Snapshot(c, active, last) ==
  [sessions |-> c, lastActiveKey |-> active, lastCleanup |-> last]

\* the installations whose backups are imported: up to three sessions, all
\* but the first with a screenshot
Sources ==
  {[store |-> OwnStore(n),
    blobs |-> {BlobOf(i, T0 - SessionMaxAge - 1) : i \in 2..n},
    active |-> IF n = 0 THEN 0 ELSE 1,
    last |-> IF n = 3 THEN T0 ELSE 0] : n \in 0..3}

\* the backup of an installation: the storage, and nothing of the
\* screenshot store (exportScreenshots has no caller). The file is the JSON
\* text of the object; sessions hold numbers, strings, booleans and arrays
\* only, which JSON.parse gives back as they were
BackupOf(src) ==
  Snapshot(IF src.store = <<>> THEN <<>> ELSE <<src.store>>, src.active, src.last)

\* mutant: the storage is cleared before the data is set
SetAll_Clear(data) ==
  /\ store' = IF data.sessions # <<>> THEN data.sessions[1] ELSE <<>>
  /\ lastActiveKey' = data.lastActiveKey
  /\ lastCleanup' = data.lastCleanup

\* chrome.storage.local.set(data.data): each key of the data replaces the
\* stored value of that key
SetAll(data) ==
  /\ store' = IF data.sessions # <<>> THEN data.sessions[1] ELSE store
  /\ lastActiveKey' = IF data.lastActiveKey # 0 THEN data.lastActiveKey ELSE lastActiveKey
  /\ lastCleanup' = IF data.lastCleanup # 0 THEN data.lastCleanup ELSE lastCleanup

\* exportAllData: get(null) is issued
exportAllData(p) ==
  /\ Call(p)
  /\ \E r \in {"ok", "err"} :
       /\ Allowed(r)
       /\ faultsLeft' = Charge(r)
       /\ task' = [task EXCEPT ![p] =
            [Idle EXCEPT !.pc = "ex_get", !.op = "export", !.res = r,
                         !.snap = IF r = "ok" THEN store ELSE <<>>,
                         !.pre = store, !.preBlobs = blobs]]
  /\ UNCHANGED <<currentSession, db, events, now, store, lastActiveKey, lastCleanup, blobs, heap,
                 saveQueue, saveInProgress, enq, qwrites>>

\* the read has answered: the backup object, or null from the catch
exportAllData_afterGet(p) ==
  LET fr == task[p] IN
  /\ fr.pc = "ex_get"
  /\ task' = [task EXCEPT ![p] =
       [Done(fr, fr.res) EXCEPT !.out = [NoOut EXCEPT !.list = fr.snap]]]
  /\ UNCHANGED <<currentSession, db, events, now, store, lastActiveKey, lastCleanup, blobs, heap,
                 saveQueue, saveInProgress, faultsLeft, opsLeft, enq, qwrites,
                 finDone, overlap>>

\* importData(data) with the backup of installation src: set is issued
importData(p, src) ==
  /\ Call(p)
  /\ \E w \in {"ok", "err"} :
       /\ Allowed(w)
       /\ faultsLeft' = Charge(w)
       /\ IF w = "ok" THEN SetAll(BackupOf(src))
          ELSE UNCHANGED <<store, lastActiveKey, lastCleanup>>
       /\ task' = [task EXCEPT ![p] =
            [Idle EXCEPT !.pc = "im_set", !.op = "import", !.res = w,
                         !.pre = src.store, !.preBlobs = src.blobs]]
  /\ UNCHANGED <<currentSession, db, events, now, blobs, heap, saveQueue, saveInProgress, enq,
                 qwrites>>

\* the write has answered: toast and true, or toast and false
importData_afterSet(p) ==
  LET fr == task[p] IN
  /\ fr.pc = "im_set"
  /\ task' = [task EXCEPT ![p] = Done(fr, fr.res)]
  /\ UNCHANGED <<currentSession, db, events, now, store, lastActiveKey, lastCleanup, blobs, heap,
                 saveQueue, saveInProgress, faultsLeft, opsLeft, enq, qwrites,
                 finDone, overlap>>

\* importData of a file that has no data section: the guard of line 486
\* throws inside the try, the catch toasts and returns false
importData_noData(p) ==
  /\ Call(p)
  /\ task' = [task EXCEPT ![p] =
       Done([Idle EXCEPT !.op = "import", !.pre = store, !.ret = "nodata"], "err")]
  /\ UNCHANGED <<currentSession, db, events, now, store, lastActiveKey, lastCleanup, blobs, heap,
                 saveQueue, saveInProgress, faultsLeft, enq, qwrites>>

NextPort ==
  \E p \in Procs :
    \/ exportAllData(p)
    \/ exportAllData_afterGet(p)
    \/ \E src \in Sources : importData(p, src)
    \/ importData_afterSet(p)
    \/ importData_noData(p)
    \/ ReadCall(p, "getStorageStats", 0)
    \/ Read_afterGet(p)

SpecPort == InitQ /\ [][NextPort]_vars

\* in this step call p imports a backup into an empty installation, and
\* the write succeeds
ImportsIntoEmpty(p) ==
  /\ task[p].pc # "im_set" /\ task'[p].pc = "im_set" /\ task'[p].res = "ok"
  /\ store = <<>> /\ blobs = {}

\* C30: importing the backup of a store into an empty store yields a store
\* with as many sessions, as many markers and as many screenshots as the
\* exported one had.
C30_ExportImportRoundTrip ==
  [][\A p \in Procs :
       ImportsIntoEmpty(p) =>
         /\ Len(store') = Len(task'[p].pre)
         /\ MarkersFrom(store', 1) = MarkersFrom(task'[p].pre, 1)
         /\ Cardinality(blobs') = Cardinality(task'[p].preBlobs)]_vars


\* the installation whose backup call p is importing
Imported(p) == CHOOSE src \in Sources : src.store = task'[p].pre

\* C31: a successful importData replaces the sessions, the active key and
\* the settings by those of the backup, each only if the backup holds that
\* key, and returns true; a file without a data section is answered with
\* false and the storage is left as it is.
C31_ImportOverwritesKeys ==
  [][\A p \in Procs :
       LET fr == task[p]
           to == task'[p]
       IN  /\ (fr.pc # "im_set" /\ to.pc = "im_set" /\ to.res = "ok") =>
                /\ store' = IF Imported(p).store # <<>> THEN Imported(p).store ELSE store
                /\ lastActiveKey' =
                     IF Imported(p).active # 0 THEN Imported(p).active ELSE lastActiveKey
                /\ lastCleanup' =
                     IF Imported(p).last # 0 THEN Imported(p).last ELSE lastCleanup
                /\ blobs' = blobs
           /\ (fr.pc = "im_set" /\ fr.res = "ok" /\ to # fr) =>
                (to.pc = "done" /\ to.res = "ok")
           /\ (to.op = "import" /\ to.ret = "nodata" /\ to # fr) =>
                /\ to.pc = "done" /\ to.res = "err"
                /\ store' = store /\ lastActiveKey' = lastActiveKey
                /\ lastCleanup' = lastCleanup /\ blobs' = blobs]_vars

\* a backup without settings has been imported over a storage that had
\* them: the sessions are the backup's, the settings are still there
C31_Witness ==
  \E p \in Procs :
    /\ task[p].pc = "done" /\ task[p].op = "import" /\ task[p].res = "ok"
    /\ Len(task[p].pre) = 1 /\ store = task[p].pre
    /\ lastCleanup = T0


\* some stored session has a marker with this id
MarkerStored(id) ==
  \E i \in DOMAIN store :
    \E j \in DOMAIN store[i].rec.markers : store[i].rec.markers[j].id = id

\* C32: once every call has completed, no backend call having failed and
\* every save having been written, each screenshot belongs to a marker of
\* a stored session; in particular the screenshot of an undone marker is
\* gone.
C32_UndoDestroysScreenshot ==
  (/\ Quiescent
   /\ faultsLeft = MaxFaults
   /\ \A i \in DOMAIN enq : enq[i].st = "written")
    => \A b \in blobs : MarkerStored(b.markerId)


----------------------------------------------------------------------------
(* The drain loop to its end: the runs of the drain loop in which every backend
   call the loop has issued is answered and every timer it has set fires *)

DrainStep ==
  \/ saveSession_afterGet(1)
  \/ checkStorageQuota_afterGet(1)
  \/ queuedSave_afterSet(1)
  \/ queuedSave_afterBackoff(1)
  \/ cleanupOldSessions_afterGet(1)
  \/ cleanupOldSessions_afterBlob(1)
  \/ cleanupOldSessions_afterSet(1)

\* the storage holds more sessions than are kept, so that the capacity
\* sweep the loop may call has sessions to delete
InitFull == InitDrain /\ Len(store) > KeepSessions

SpecDrainFair == InitFull /\ [][NextDrain]_vars /\ WF_vars(DrainStep)

----------------------------------------------------------------------------
(* Claims about the drain loop as a whole, checked under SpecQ *)

\* call p is inside the drain loop of queuedSave
InDrain(p) ==
  \/ task[p].pc \in {"quota_get", "drain_set", "backoff"}
  \/ task[p].pc \in CapacityPcs /\ FromDrain(task[p])

\* C34: at most one call is inside the drain loop, and the flag is set
\* exactly while one is; a save that reaches queuedSave while the loop runs
\* puts its collection in the Map and returns, issuing no write.
C34_OneDrainLoop ==
  [][/\ (Cardinality({p \in Procs : InDrain(p)}) <= 1)'
     /\ (saveInProgress <=> (\E p \in Procs : InDrain(p)))'
     /\ \A p \in Procs :
          (task[p].pc = "save_get" /\ task[p].res = "ok" /\ saveInProgress
             /\ task'[p] # task[p]) =>
            /\ Resting(p)'
            /\ saveInProgress'
            /\ Len(saveQueue') = 1
            /\ saveQueue'[1].data.obj = task[p].obj
            /\ qwrites' = qwrites]_vars

\* the first save's write is in flight and a second save has been put in
\* the Map meanwhile
C34_Witness ==
  \E p, q \in Procs :
    /\ task[p].pc = "drain_set" /\ Resting(q)
    /\ Len(enq) = 2 /\ Len(qwrites) = 1
    /\ saveQueue # <<>> /\ saveQueue[1].data.eid = 2


----------------------------------------------------------------------------
(* Claims about the order of events in the drain loop, checked under
   SpecDrain *)

\* event i is the answer to a write
Answer(i) == i \in DOMAIN EvLog /\ EvLog[i].e \in {"ok", "err", "quota"}

\* C35: every write the drain loop issues, first attempt or retry, directly
\* follows a quota check of the same attempt that returned true, and every
\* answered write was issued that way; a check that returned false is not
\* followed by a write.
C35_CheckBeforeEveryWrite ==
  /\ Cardinality({i \in DOMAIN EvLog : EvLog[i].e = "set"}) = Len(qwrites)
  /\ \A i \in DOMAIN EvLog :
       /\ EvLog[i].e = "set" =>
            (Is(i - 1, "check", 1) /\ EvLog[i - 1].eid = EvLog[i].eid)
       /\ Answer(i) =>
            /\ i > 2 /\ EvLog[i - 1].e = "set" /\ Is(i - 2, "check", 1)
            /\ EvLog[i - 1].eid = EvLog[i].eid
       /\ Is(i, "check", 0) =>
            (i + 1 \in DOMAIN EvLog => EvLog[i + 1].e # "set")

\* an entry's write failed and was retried after a second quota check
C35_Witness ==
  \E i, j \in DOMAIN EvLog :
    /\ i < j /\ EvLog[i].eid = EvLog[j].eid
    /\ EvLog[i].e = "set" /\ EvLog[j].e = "set"
    /\ \E k \in DOMAIN EvLog : i < k /\ k < j /\ EvLog[k].e = "wait"


----------------------------------------------------------------------------
(* Claims about the order of the age sweep, checked under SpecOwn *)

\* the screenshots that are older than the ceiling for the sweep of frame fr
AgedBlobs(fr) == {b \in blobs : b.createdAt <= fr.at - ScreenshotMaxAge}

\* C36: the age sweep removes sessions only after its screenshot step: the
\* step that takes sessions out of the collection is taken when
\* cleanupOldScreenshots has answered, having deleted every aged screenshot
\* or having failed.
C36_BlobsBeforeSessions ==
  [][LET fr == task[1] IN
     (fr.op = "progressive" /\ fr.pc \in AgePcs /\ Len(store') < Len(store)) =>
       /\ fr.pc = "pc_get"
       /\ fr.blobErr \/ AgedBlobs(fr) = {}]_vars

\* the sweep has deleted the aged screenshots and then written the
\* collection without the aged sessions
C36_Witness ==
  LET fr == task[1] IN
  /\ fr.op = "progressive" /\ fr.pc = "pc_set" /\ fr.res = "ok" /\ ~fr.blobErr
  /\ Len(store) < Len(fr.pre)
  /\ fr.preBlobs # {} /\ blobs = {}


----------------------------------------------------------------------------
(* Saves racing with a removal: the callers of SpecQ on a storage that
   holds a fresh session under key 1 and an old one, with a screenshot,
   under key 2 *)

InitRace == InitOwn /\ Len(store) = Cardinality(QKeys)

SpecRace == InitRace /\ [][NextQ]_vars

\* the write that call fr is about to issue is of an operation called with
\* key k: the entry of a save of k, or finalizeSession or beginSession of k
Names(fr, k) ==
  \/ fr.pc = "quota_get" /\ fr.qd.key = k
  \/ fr.pc \in {"fin_get", "beg_get"} /\ fr.key = k

\* C37: a key that is not in the collection enters it only by the write of
\* a save, begin or finalize called with that key; in particular the write
\* of a save of another session does not bring back a session that was
\* deleted after that save had read the collection.
C37_RemovedStaysRemoved ==
  [][\A k \in QKeys :
       (~Has(store, k) /\ Has(store', k) /\ faultsLeft' = MaxFaults) =>
         \E p \in Procs : task'[p] # task[p] /\ Names(task[p], k)]_vars


----------------------------------------------------------------------------
(* The page with its sessions list: the current session is the one begun   *)
(* on the page or one loaded from the list (part_002:1256-1265)            *)

\* loadSession(key): CMBStorage.getSession reads the collection
loadSession(p, k) ==
  /\ Call(p)
  /\ \E r \in {"ok", "err"} :
       /\ Allowed(r)
       /\ faultsLeft' = Charge(r)
       /\ task' = [task EXCEPT ![p] =
            [Idle EXCEPT !.pc = "ld_get", !.op = "load", !.key = k, !.res = r,
                         !.snap = IF r = "ok" THEN store ELSE <<>>]]
  /\ UNCHANGED <<currentSession, db, events, now, store, lastActiveKey, lastCleanup, blobs,
                 heap, saveQueue, saveInProgress, enq, qwrites>>

\* getSession has answered: null after a failed read (storage.js:260-263)
\* and for a key that is not stored; otherwise the record read, a new
\* object, becomes the current session.  Its url is the one it was begun
\* with: for a session begun today getSessionKey(session.url) is the key it
\* is stored under.
loadSession_afterGet(p) ==
  LET fr == task[p] IN
  /\ fr.pc = "ld_get"
  /\ IF fr.res = "ok" /\ Has(fr.snap, fr.key)
     THEN /\ heap' = [heap EXCEPT ![2] = Get(fr.snap, fr.key)]
          /\ currentSession' = [obj |-> 2, key |-> fr.key]
     ELSE UNCHANGED <<heap, currentSession>>
  /\ task' = [task EXCEPT ![p] = Idle]
  /\ UNCHANGED <<db, events, now, store, lastActiveKey, lastCleanup, blobs, saveQueue,
                 saveInProgress, faultsLeft, opsLeft, enq, qwrites, finDone, overlap>>

\* the page's own session and n - 1 sessions of other videos begun today,
\* each with one marker and its screenshot
InitLoad ==
  /\ now = T0
  /\ \E n \in {2, KeepSessions + 1} :
       /\ store = [i \in 1..n |->
            [key |-> i,
             rec |-> IF i = PageKey
                     THEN [NewSession(T0) EXCEPT !.markers = <<[id |-> 1, shot |-> FALSE]>>]
                     ELSE Stored(i, T0, TRUE)]]
       /\ blobs = {BlobOf(i, T0) : i \in 2..n}
  /\ AtRest

NextLoad ==
  \/ \E k \in QKeys : loadSession(1, k)
  \/ loadSession_afterGet(1)
  \/ \E shot \in BOOLEAN : addMarker(1, currentSession.obj, currentSession.key, shot)
  \/ addMarker_afterBlob(1)
  \/ undoLastMarker(1, currentSession.obj, currentSession.key)
  \/ saveSession_afterGet(1)
  \/ checkStorageQuota_afterGet(1)
  \/ queuedSave_afterSet(1)
  \/ queuedSave_afterBackoff(1)
  \/ cleanupOldSessions_afterGet(1)
  \/ cleanupOldSessions_afterBlob(1)
  \/ cleanupOldSessions_afterSet(1)
  \/ \E k \in QKeys : deleteSession(1, k)
  \/ deleteSession_afterGet(1)
  \/ deleteSession_afterBlob(1)
  \/ deleteSession_afterSet(1)

SpecLoad == InitLoad /\ [][NextLoad]_vars

\* C38: the screenshot of every marker of a stored session has that
\* session's key as its owner, so that deleting the session's screenshots
\* by owner takes exactly the screenshots of its markers; this is to hold
\* also after another session was loaded as the current one.
C38_ScreenshotOwnedBySession ==
  \A i \in DOMAIN store : \A j \in DOMAIN store[i].rec.markers :
    \A b \in blobs :
      (store[i].rec.markers[j].shot /\ b.markerId = store[i].rec.markers[j].id) =>
        b.sessionKey = store[i].key


----------------------------------------------------------------------------
(* Claims about a quota check that cannot measure, checked under SpecDrain *)

\* the last n events of the history
LastEvents(log, n) == SubSeq(log, Len(log) - n + 1, Len(log))

\* C39: when the read that measures the storage fails, checkStorageQuota
\* returns true without a toast, without eviction and without raising: the
\* drain loop issues the write of the entry in the same attempt (no attempt
\* is counted, nothing is evicted) and the history of the step is the failed
\* measurement, the check's answer true and the write.
C39_QuotaCheckFailsOpen ==
  [][\A p \in Procs :
       LET fr == task[p]
           to == task'[p]
       IN (fr.pc = "quota_get" /\ fr.res # "ok" /\ to # fr) =>
            /\ to.pc = "drain_set"
            /\ to.attempt = fr.attempt
            /\ qwrites' = Append(qwrites, qwrites'[Len(qwrites')])
            /\ qwrites'[Len(qwrites')].eid = fr.qd.eid
            /\ blobs' = blobs
            /\ store' \in {store, Serialize(fr.qd)}
            /\ Len(EvLog') = Len(EvLog) + 3
            /\ LastEvents(EvLog', 3) = <<Ev("nomeasure", fr.qd.eid, 0),
                                         Ev("check", fr.qd.eid, 1),
                                         Ev("set", fr.qd.eid, 0)>>]_vars

\* a write issued after a failed measurement has succeeded
C39_Witness ==
  \E i \in DOMAIN EvLog :
    /\ EvLog[i].e = "nomeasure"
    /\ i + 3 \in DOMAIN EvLog
    /\ EvLog[i + 1].e = "check" /\ EvLog[i + 1].v = 1
    /\ EvLog[i + 2].e = "set"
    /\ EvLog[i + 3].e = "ok"
    /\ store = qwrites[Len(qwrites)].coll

====
